---- MODULE Spec2Model ----
(***************************************************************************)
(* Model of HTML-compile-complete.js: a one-shot generator that reads a    *)
(* portfolio JSON document and writes index.html and, conditionally,       *)
(* references.html and projects.html.                                      *)
(*                                                                         *)
(* Representation.                                                         *)
(*  - A JS string is a sequence of one-character strings (a literal of the *)
(*    source that holds no HTML-special character may be kept as a single  *)
(*    element).  The empty string is << >>.                                *)
(*  - An optional JSON field is a sequence of length 0 (absent, undefined) *)
(*    or 1 (present): None, Some(v).                                       *)
(*  - A page or fragment is a sequence of tokens: Lit(m) is markup of the  *)
(*    template, Val(f, s) is the text s embedded by ${...} for the         *)
(*    document field f.                                                    *)
(***************************************************************************)
EXTENDS Integers, Sequences, FiniteSets, TLC

(***************************************************************************)
(* Bounds of the model                                                     *)
(***************************************************************************)
MaxOrder == 2

MaxLen == 2

MaxRefs == 1

MaxProjects == 1

MaxTimeline == 3

MaxCats == 5

MaxLink == 3

MaxSkillTags == 4

MaxDesc == 2

MaxIcons == 6

(***************************************************************************)
(* Generic helpers                                                         *)
(***************************************************************************)
None == << >>

Some(v) == << v >>

Opt(S) == { None } \cup { Some(v) : v \in S }

SeqUpTo(S, n) == UNION { [1..k -> S] : k \in 0..n }

\* JS truthiness of an optional string or array-length test: x && x.length > 0
IsSet(o) == o # None /\ o[1] # << >>

\* JS  x || d  for an optional string x
OrElse(o, d) == IF IsSet(o) THEN o[1] ELSE d

\* value of an optional string passed straight to a function (undefined and ''
\* are both falsy)
StrOf(o) == IF o = None THEN << >> ELSE o[1]

RECURSIVE Concat(_)
Concat(ss) == IF ss = << >> THEN << >> ELSE Head(ss) \o Concat(Tail(ss))

\* Array.prototype.join on fragments: sep between consecutive elements
RECURSIVE Join(_, _)
Join(ss, sep) ==
  IF ss = << >> THEN << >>
  ELSE IF Len(ss) = 1 THEN ss[1]
  ELSE ss[1] \o sep \o Join(Tail(ss), sep)

Includes(s, x) == \E i \in 1..Len(s) : s[i] = x

RECURSIVE Count(_, _)
Count(s, x) ==
  IF s = << >> THEN 0
  ELSE (IF Head(s) = x THEN 1 ELSE 0) + Count(Tail(s), x)

(***************************************************************************)
(* Strings                                                                 *)
(***************************************************************************)
Chars == { "&", "<", ">", "\"", "'", " ", "a" }

Strings == SeqUpTo(Chars, MaxLen)

Whitespace == { " " }

RECURSIVE TrimLeft(_)
TrimLeft(s) ==
  IF s # << >> /\ Head(s) \in Whitespace THEN TrimLeft(Tail(s)) ELSE s

RECURSIVE TrimRight(_)
TrimRight(s) ==
  IF s # << >> /\ s[Len(s)] \in Whitespace
  THEN TrimRight(SubSeq(s, 1, Len(s) - 1)) ELSE s

\* String.prototype.trim
Trim(s) == TrimRight(TrimLeft(s))

\* String.prototype.replace(/c/g, ent): every occurrence of the character c
RECURSIVE ReplaceAll(_, _, _)
ReplaceAll(s, c, ent) ==
  IF s = << >> THEN << >>
  ELSE (IF Head(s) = c THEN ent ELSE << Head(s) >>) \o ReplaceAll(Tail(s), c, ent)

\* escapeHtml that also maps an all-whitespace string to ''
escapeHtml_blank(text) ==
  IF Trim(text) = << >> THEN << >>
  ELSE ReplaceAll(ReplaceAll(ReplaceAll(ReplaceAll(ReplaceAll(text,
         "&", << "&", "a", "m", "p", ";" >>),
         "<", << "&", "l", "t", ";" >>),
         ">", << "&", "g", "t", ";" >>),
         "\"", << "&", "q", "u", "o", "t", ";" >>),
         "'", << "&", "#", "3", "9", ";" >>)

\* escapeHtml(text): falsy -> '', else five global replaces, '&' first
escapeHtml(text) ==
  IF text = << >> THEN << >>
  ELSE ReplaceAll(ReplaceAll(ReplaceAll(ReplaceAll(ReplaceAll(text,
         "&", << "&", "a", "m", "p", ";" >>),
         "<", << "&", "l", "t", ";" >>),
         ">", << "&", "g", "t", ";" >>),
         "\"", << "&", "q", "u", "o", "t", ";" >>),
         "'", << "&", "#", "3", "9", ";" >>)

(***************************************************************************)
(* Tokens of the generated markup                                          *)
(***************************************************************************)
Lit(m) == [t |-> "lit", f |-> m, v |-> << >>, n |-> 0]

Val(f, s) == [t |-> "val", f |-> f, v |-> s, n |-> 0]

(***************************************************************************)
(* The input document (PortfolioDocument of the JSON file)                 *)
(***************************************************************************)
SectionIds == { "hero", "about", "skills", "projects", "timeline", "contact", "bogus" }

DefaultSectionOrder == << "hero", "about", "skills", "projects", "timeline", "contact" >>

Cat1 == [id |-> "c1", name |-> << "Languages" >>, icon |-> Some(<< "code" >>)]

Cat2 == [id |-> "c2", name |-> << "Misc" >>, icon |-> None]

SkillsWithData ==
  Some([categories |-> Some(<< Cat1, Cat2 >>),
        skills |-> Some(<< [key |-> "c1", list |-> << << "js" >>, << "go" >> >>],
                           [key |-> "c2", list |-> << << "tla" >> >>] >>)])

SkillsNoLists ==
  Some([categories |-> Some(<< Cat1, Cat2 >>),
        skills |-> Some(<< [key |-> "c1", list |-> << >>] >>)])

SkillsChoices == { None, SkillsWithData, SkillsNoLists }

Project1 ==
  [title |-> << "P1" >>, summary |-> Some(<< "sum" >>), description |-> Some(<< "desc" >>),
   image |-> None, imageBg |-> None, imageStyle |-> None,
   skills |-> Some(<< << "s1" >>, << "s2" >>, << "s3" >>, << "s4" >> >>),
   githubUrl |-> Some(<< "gh" >>), liveUrl |-> None, technologies |-> Some(<< << "t1" >> >>)]

Project2 ==
  [title |-> << "P2" >>, summary |-> None, description |-> Some(<< "desc2" >>),
   image |-> Some(<< "img" >>), imageBg |-> Some("white"), imageStyle |-> Some(<< "contain" >>),
   skills |-> None, githubUrl |-> None, liveUrl |-> Some(<< "live" >>), technologies |-> None]

ProjectSet == { Project1, Project2 }

Reference1 ==
  [name |-> << "A", " ", "B" >>, title |-> << "CTO" >>, company |-> << "Co" >>,
   relationship |-> None, description |-> Some(<< "d" >>), testimonial |-> None,
   email |-> << "e" >>, phone |-> None, linkedin |-> Some(<< "li" >>)]

ReferenceSet == { Reference1 }

Entry(ty) ==
  [type |-> ty, year |-> << "2020" >>, title |-> << "T" >>,
   organization |-> << "Org" >>, description |-> None]

NoTheme ==
  [primary |-> None, secondary |-> None, accent |-> None, background |-> None, text |-> None]

BaseDoc ==
  [name |-> Some(<< "Ann" >>), title |-> Some(<< "Dev" >>), bio |-> None,
   themeColors |-> None, sectionOrder |-> None,
   aboutText |-> Some(<< "p1", "\n", "\n", "p2" >>),
   skills |-> None, skillsDisplayMode |-> None,
   projects |-> None, timeline |-> Some(<< Entry("education"), Entry("experience") >>),
   contact |-> Some([email |-> Some(<< "e" >>), linkedin |-> None, phone |-> None,
                     areasOfInterest |-> None]),
   links |-> None, resumeUrl |-> None, referencesUrl |-> None, references |-> None,
   footerDescriptors |-> None, projectsDescription |-> None, contactIntro |-> None,
   headshotImage |-> None]

FileNames == { "index.html", "references.html", "projects.html" }

\* documents that vary the section order and the skills data
OrderDocs ==
  { [BaseDoc EXCEPT !.sectionOrder = so, !.skills = sk, !.skillsDisplayMode = md,
                    !.projects = Some(<< Project1 >>)] :
      so \in Opt(SeqUpTo(SectionIds, MaxOrder)),
      sk \in SkillsChoices,
      md \in { None, Some("rotating") } }

\* documents that vary the triggers of the secondary pages
PageDocs ==
  { [BaseDoc EXCEPT !.referencesUrl = ru, !.references = rs, !.projects = ps] :
      ru \in Opt({ << >>, << " " >>, << "u" >> }),
      rs \in Opt(SeqUpTo(ReferenceSet, MaxRefs)),
      ps \in Opt(SeqUpTo(ProjectSet, MaxProjects)) }

\* documents that vary the free text and the raw-embedded fields
TextDocs ==
  { [BaseDoc EXCEPT !.name = nm] : nm \in Opt(Strings) }
  \cup
  { [BaseDoc EXCEPT !.themeColors = Some([NoTheme EXCEPT !.primary = c])] :
      c \in Opt(Strings) }
  \cup
  { [BaseDoc EXCEPT !.projects = Some(<< [Project2 EXCEPT !.imageStyle = st] >>)] :
      st \in Opt(Strings) }

\* documents that vary the types of the timeline entries
TimelineTypes == { "education", "experience", "research", "volunteer" }

TimelineDocs ==
  { [BaseDoc EXCEPT !.timeline = Some([i \in 1..Len(tl) |-> Entry(tl[i])])] :
      tl \in SeqUpTo(TimelineTypes, MaxTimeline) }

\* documents that vary the number of categories and which of them hold skills:
\* a category has a non-empty list, an empty list, or no key in the mapping
CatIds == << "k1", "k2", "k3", "k4", "k5", "k6", "k7", "k8" >>

CatNames == << "N1", "N2", "N3", "N4", "N5", "N6", "N7", "N8" >>

Category(i) == [id |-> CatIds[i], name |-> << CatNames[i] >>, icon |-> None]

CardSkills(n, st) ==
  LET Keyed(i) == st[i] # "missing"
      idx == SelectSeq([i \in 1..n |-> i], Keyed)
  IN Some([categories |-> Some([i \in 1..n |-> Category(i)]),
           skills |-> Some([j \in 1..Len(idx) |->
                              [key |-> CatIds[idx[j]],
                               list |-> IF st[idx[j]] = "skills" THEN << << "sk" >> >>
                                        ELSE << >>]])])

CardDocs ==
  UNION { { [BaseDoc EXCEPT !.skills = CardSkills(n, st)] :
              st \in [1..n -> { "skills", "empty", "missing" }] } : n \in 0..MaxCats }

\* documents that vary the categories list against the key order of the mapping
ListsOf(key) ==
  IF key = "c1" THEN { << >>, << << "a1" >> >>, << << "a1" >>, << "a2" >> >> }
  ELSE { << >>, << << "b1" >> >>, << << "b1" >>, << "b2" >> >> }

Mappings ==
  { << >> }
  \cup { << [key |-> k, list |-> l] >> : k \in { "c1", "c2" }, l \in ListsOf("c1") \cup ListsOf("c2") }
  \cup { << [key |-> "c1", list |-> l1], [key |-> "c2", list |-> l2] >> :
           l1 \in ListsOf("c1"), l2 \in ListsOf("c2") }
  \cup { << [key |-> "c2", list |-> l2], [key |-> "c1", list |-> l1] >> :
           l1 \in ListsOf("c1"), l2 \in ListsOf("c2") }

CategoryLists == { << >>, << Cat1 >>, << Cat1, Cat2 >>, << Cat2, Cat1 >> }

MappingDocs ==
  { [BaseDoc EXCEPT !.skills = Some([categories |-> cs, skills |-> Some(m)]),
                    !.skillsDisplayMode = md] :
      cs \in Opt(CategoryLists), m \in Mappings, md \in { None, Some("rotating") } }

\* documents that vary the contact object, the links object and the selection
\* of the contact section
FullContact ==
  [email |-> Some(<< "e" >>), linkedin |-> Some(<< "https://", "linkedin.com/in/", "ann" >>),
   phone |-> Some(<< "555" >>), areasOfInterest |-> Some(<< << "ai" >> >>)]

EmptyContact ==
  [email |-> None, linkedin |-> None, phone |-> None, areasOfInterest |-> None]

ContactDocs ==
  { [BaseDoc EXCEPT !.contact = c, !.links = l, !.sectionOrder = so] :
      c \in { None, Some(EmptyContact), Some(FullContact) },
      l \in { None, Some([github |-> None]), Some([github |-> Some(<< "https://", "github.com/", "ann" >>)]) },
      so \in { None, Some(<< "hero" >>), Some(<< "contact" >>) } }

\* documents that vary the LinkedIn and GitHub links, as sequences of the
\* substrings the display text is computed from
LinkedinChunks == { "https://", "www.", "linkedin.com/in/", "someone" }

GithubChunks == { "https://", "http://", "github.com/", "someone" }

LinkDocs ==
  { [BaseDoc EXCEPT !.contact = Some([EmptyContact EXCEPT !.linkedin = Some(u)])] :
      u \in SeqUpTo(LinkedinChunks, MaxLink) }
  \cup
  { [BaseDoc EXCEPT !.links = Some([github |-> Some(u)])] :
      u \in SeqUpTo(GithubChunks, MaxLink) }

\* documents that vary the theme colors, with both secondary pages triggered
ColorChoices == { None, Some(<< >>), Some(<< "#abc" >>) }

ThemeDocs ==
  { [BaseDoc EXCEPT !.themeColors = tc, !.references = Some(<< Reference1 >>),
                    !.projects = Some(<< Project1 >>)] :
      tc \in Opt([primary : ColorChoices, secondary : ColorChoices, accent : ColorChoices,
                  background : ColorChoices, text : ColorChoices]) }

\* documents that vary the number of skills of the projects: no skills field,
\* or the first n of a list of tags
TagNames == << "t1", "t2", "t3", "t4", "t5", "t6" >>

TagLists == Opt({ [i \in 1..n |-> << TagNames[i] >>] : n \in 0..MaxSkillTags })

ProjectTagDocs ==
  { [BaseDoc EXCEPT !.projects = Some(<< [Project1 EXCEPT !.skills = s1] >>)] :
      s1 \in TagLists }
  \cup
  { [BaseDoc EXCEPT !.projects = Some(<< [Project1 EXCEPT !.skills = s1],
                                         [Project2 EXCEPT !.skills = s2] >>)] :
      s1 \in TagLists, s2 \in TagLists }

\* documents whose timeline entries differ in their year, to tell them apart
Years == << "2019", "2020", "2021", "2022", "2023", "2024" >>

DatedTimelineDocs ==
  { [BaseDoc EXCEPT !.timeline =
       Some([i \in 1..Len(tl) |-> [Entry(tl[i]) EXCEPT !.year = << Years[i] >>]])] :
      tl \in SeqUpTo(TimelineTypes, MaxTimeline) }

\* documents that vary the footer descriptors and the title
DescStrings == { << >>, << " " >>, << " ", "a" >>, << "a", " " >>, << "<" >>, << "b" >> }

FooterDocs ==
  { [BaseDoc EXCEPT !.footerDescriptors = fd, !.title = ti] :
      fd \in Opt(SeqUpTo(DescStrings, MaxDesc)),
      ti \in { None, Some(<< "D", "&" >>) } }

\* documents that vary the icon identifier and the display name of one
\* category among MaxIcons categories with skills, its position, and whether
\* the first category of the list is one without skills
IconChoices ==
  { None, Some(<< >>), Some(<< "code" >>), Some(<< "Code" >>), Some(<< "CODE" >>),
    Some(<< "Zzz" >>) }

NameChoices == { "Plain", "star", "Star", "STAR" }

IconSkills(k, ic, nm, gap) ==
  Some([categories |->
          Some([i \in 1..MaxIcons |->
                  IF i = k THEN [id |-> CatIds[i], name |-> << nm >>, icon |-> ic]
                  ELSE Category(i)]),
        skills |->
          Some([i \in 1..MaxIcons |->
                  [key |-> CatIds[i],
                   list |-> IF gap /\ i = 1 THEN << >> ELSE << << "sk" >> >>]])])

IconDocs ==
  { [BaseDoc EXCEPT !.skills = IconSkills(k, ic, nm, gap)] :
      k \in 1..MaxIcons, ic \in IconChoices, nm \in NameChoices, gap \in BOOLEAN }

\* a run: the command line, what the data file holds, and which writes the
\* file system refuses
Run(a, k, d, fw) == [arg |-> a, kind |-> k, doc |-> d, fail |-> fw]

Runs ==
  { Run(TRUE, "ok", d, {}) :
      d \in OrderDocs \cup TextDocs \cup TimelineDocs \cup CardDocs \cup MappingDocs
             \cup ContactDocs \cup LinkDocs \cup ThemeDocs \cup ProjectTagDocs
             \cup DatedTimelineDocs \cup FooterDocs \cup IconDocs }
  \cup { Run(TRUE, "ok", d, fw) : d \in PageDocs, fw \in SUBSET FileNames }
  \cup { Run(a, k, BaseDoc, {}) : a \in BOOLEAN, k \in { "ok", "unreadable", "malformed", "null" } }

(***************************************************************************)
(* State                                                                   *)
(***************************************************************************)
VARIABLES
  argv,              \* process.argv[2] is present
  disk,              \* the data file: [kind, doc]; kind "ok", "unreadable", "malformed", "null"
  failWrites,        \* the files whose fs.writeFileSync throws
  pc,                \* position of the top-level script
  portfolioData,     \* None until parsed (and for JSON null), else Some(document)
  primaryColor, secondaryColor, accentColor, backgroundColor, textColor,
  sectionOrder,
  htmlContent, referencesContent, projectsContent,  \* None or Some(page)
  files,             \* file name -> None (not written) or Some(page)
  writeLog,          \* the fs.writeFileSync calls so far: << [file, ok] >>
  reads,             \* number of fs.readFileSync calls
  stderr, exitCode

vars ==
  << argv, disk, failWrites, pc, portfolioData, primaryColor, secondaryColor,
     accentColor, backgroundColor, textColor, sectionOrder, htmlContent,
     referencesContent, projectsContent, files, writeLog, reads, stderr, exitCode >>

pd == portfolioData[1]

NL == Lit("\n")

(***************************************************************************)
(* Section renderers of the main page                                      *)
(***************************************************************************)
generateHeroSection ==
  << Lit("<section id=hero>"), Val("primaryColor", primaryColor),
     Val("secondaryColor", secondaryColor) >>
  \o (IF IsSet(pd.headshotImage)
      THEN << Lit("<img headshot>"), Val("headshotImage", escapeHtml(pd.headshotImage[1])),
              Val("name", escapeHtml(StrOf(pd.name))) >>
      ELSE << Lit("Add Headshot") >>)
  \o << Val("name", escapeHtml(OrElse(pd.name, << "Your Name" >>))),
        Val("accentColor", accentColor),
        Val("title", escapeHtml(OrElse(pd.title, << "Your Professional Title" >>))),
        Val("accentColor", accentColor),
        Val("bio", escapeHtml(OrElse(pd.bio, << "Add your professional bio here" >>))),
        Val("secondaryColor", secondaryColor), Val("primaryColor", primaryColor),
        Val("secondaryColor", secondaryColor),
        Lit("</section hero>") >>

\* portfolioData.skills.skills?.[id] || []
SkillsOfCategory(id) ==
  IF pd.skills[1].skills = None THEN << >>
  ELSE LET m == pd.skills[1].skills[1]
           hits == { i \in 1..Len(m) : m[i].key = id }
       IN IF hits = {} THEN << >>
          ELSE m[CHOOSE i \in hits : \A j \in hits : j <= i].list

Min(a, b) == IF a < b THEN a ELSE b

\* the chunks s.slice(i, i + n) for i = 0, n, 2n, ...
Rows(s, n) ==
  [r \in 1..((Len(s) + n - 1) \div n) |-> SubSeq(s, (r - 1) * n + 1, Min(r * n, Len(s)))]

RowSize == 3

DefaultIconCount == 5

defaultIcons == << "star", "check", "people", "check", "framework" >>

\* String.prototype.toLowerCase on the identifiers of the model
ToLower(s) ==
  [i \in 1..Len(s) |->
     CASE s[i] = "Languages" -> "languages"
       [] s[i] = "Misc" -> "misc"
       [] s[i] \in { "Code", "CODE" } -> "code"
       [] s[i] \in { "Star", "STAR" } -> "star"
       [] s[i] = "Zzz" -> "zzz"
       [] OTHER -> s[i]]

\* the switch of getCategoryIcon: the SVG an identifier selects ("" if none)
IconTable(identifier) ==
  CASE identifier = << "star" >> -> "star"
    [] identifier \in { << "check" >>, << "testing" >> } -> "check"
    [] identifier \in { << "people" >>, << "professional" >>, << "professional skills" >> } -> "people"
    [] identifier \in { << "code" >>, << "technical" >>, << "technical skills" >> } -> "code"
    [] identifier \in { << "tool" >>, << "engineering" >>, << "engineering expertise" >>,
                        << "devops" >> } -> "tool"
    [] identifier \in { << "design" >>, << "creative" >> } -> "design"
    [] identifier = << "language" >> -> "language"
    [] identifier \in { << "heart" >>, << "soft" >>, << "healthcare" >>, << "volunteer" >> } -> "heart"
    [] identifier = << "certification" >> -> "certification"
    [] identifier = << "framework" >> -> "framework"
    [] identifier = << "database" >> -> "database"
    [] identifier = << "cloud" >> -> "cloud"
    [] identifier = << "mobile" >> -> "mobile"
    [] identifier \in { << "management" >>, << "analytics" >> } -> "management"
    [] identifier \in { << "research" >>, << "ai" >> } -> "research"
    [] identifier = << "communication" >> -> "communication"
    [] identifier \in { << "leadership" >>, << "startup" >> } -> "leadership"
    [] identifier = << "security" >> -> "security"
    [] identifier = << "blockchain" >> -> "blockchain"
    [] identifier = << "gaming" >> -> "gaming"
    [] identifier = << "finance" >> -> "finance"
    [] identifier = << "education" >> -> "education"
    [] identifier = << "marketing" >> -> "marketing"
    [] identifier = << "sales" >> -> "sales"
    [] identifier = << "consulting" >> -> "consulting"
    [] OTHER -> ""

\* variant of getCategoryIcon that tries the name when the icon is unrecognized
getCategoryIcon_nameFallback(iconName, categoryName, categoryIndex) ==
  LET identifier == ToLower(IF IsSet(iconName) THEN iconName[1] ELSE categoryName)
  IN IF IconTable(identifier) # "" THEN IconTable(identifier)
     ELSE IF IconTable(ToLower(categoryName)) # "" THEN IconTable(ToLower(categoryName))
     ELSE defaultIcons[(categoryIndex % DefaultIconCount) + 1]

\* getCategoryIcon(iconName, categoryName, categoryIndex): the name of the SVG
getCategoryIcon(iconName, categoryName, categoryIndex) ==
  LET identifier == ToLower(IF IsSet(iconName) THEN iconName[1] ELSE categoryName)
  IN IF IconTable(identifier) # "" THEN IconTable(identifier)
     ELSE defaultIcons[(categoryIndex % DefaultIconCount) + 1]

Icon(svg) == [t |-> "icon", f |-> svg, v |-> << >>, n |-> 0]

\* the "+N more" badge
More(k) == [t |-> "more", f |-> "+N more", v |-> << >>, n |-> k]

\* variant of AllSkills that walks the categories list instead of the mapping
AllSkills_byCategories ==
  Concat([i \in 1..Len(StrOf(pd.skills[1].categories)) |->
            SkillsOfCategory(pd.skills[1].categories[1][i].id)])

\* Object.values(portfolioData.skills.skills).flat(): key order of the mapping
AllSkills == Concat([i \in 1..Len(pd.skills[1].skills[1]) |-> pd.skills[1].skills[1][i].list])

\* variant of generateSkillsCarousel that repeats the list twice
generateSkillsCarousel_twice ==
  IF pd.skills = None \/ pd.skills[1].skills = None THEN << >>
  ELSE IF Len(AllSkills) = 0 THEN << >>
  ELSE LET displaySkills == AllSkills \o AllSkills
       IN << Lit("<skills-carousel>"), Val("primaryColor", primaryColor) >>
          \o Concat([i \in 1..Len(displaySkills) |->
                       << Lit("<span badge>"), Val("secondaryColor", secondaryColor),
                          Val("secondaryColor", secondaryColor),
                          Val("skill", escapeHtml(displaySkills[i])) >>])
          \o << Lit("</skills-carousel>") >>

generateSkillsCarousel ==
  IF pd.skills = None \/ pd.skills[1].skills = None THEN << >>
  ELSE IF Len(AllSkills) = 0 THEN << >>
  ELSE LET displaySkills == AllSkills \o AllSkills \o AllSkills
       IN << Lit("<skills-carousel>"), Val("primaryColor", primaryColor) >>
          \o Concat([i \in 1..Len(displaySkills) |->
                       << Lit("<span badge>"), Val("secondaryColor", secondaryColor),
                          Val("secondaryColor", secondaryColor),
                          Val("skill", escapeHtml(displaySkills[i])) >>])
          \o << Lit("</skills-carousel>") >>

HasSkillList(category) == Len(SkillsOfCategory(category.id)) > 0

SkillCard(category, globalIndex, isPartialRow) ==
  << Lit(IF isPartialRow THEN "<card w-80>" ELSE "<card w-full>"),
     Val("primaryColor", primaryColor),
     Icon(getCategoryIcon(category.icon, category.name, globalIndex)),
     Val("primaryColor", primaryColor),
     Val("category.name", escapeHtml(category.name)) >>
  \o Concat([i \in 1..Len(SkillsOfCategory(category.id)) |->
               << Val("secondaryColor", secondaryColor),
                  Val("skill", escapeHtml(SkillsOfCategory(category.id)[i])) >>])
  \o << Lit("</card>") >>

\* variant of generateSkillsCards that does not filter the categories
generateSkillsCards_noFilter ==
  IF pd.skills = None \/ pd.skills[1].categories = None THEN << >>
  ELSE LET categoriesWithSkills == pd.skills[1].categories[1]
           chunks == Rows(categoriesWithSkills, RowSize)
           Row(r) ==
             LET rowCategories == chunks[r]
                 isPartialRow == Len(rowCategories) < RowSize
             IN << Lit(IF isPartialRow THEN "<row flex justify-center>" ELSE "<row grid>") >>
                \o Concat([k \in 1..Len(rowCategories) |->
                             SkillCard(rowCategories[k], (r - 1) * RowSize + (k - 1),
                                       isPartialRow)])
                \o << Lit("</row>") >>
       IN IF Len(categoriesWithSkills) = 0 THEN << Lit("No skills added yet") >>
          ELSE << Lit("<skills-cards>") >>
               \o Join([r \in 1..Len(chunks) |-> Row(r)], << NL >>)
               \o << Lit("</skills-cards>") >>

\* variant of generateSkillsCards that passes the index in the categories list
generateSkillsCards_originalIndex ==
  IF pd.skills = None \/ pd.skills[1].categories = None THEN << >>
  ELSE LET categoriesWithSkills == SelectSeq(pd.skills[1].categories[1], HasSkillList)
           chunks == Rows(categoriesWithSkills, RowSize)
           Row(r) ==
             LET rowCategories == chunks[r]
                 isPartialRow == Len(rowCategories) < RowSize
             IN << Lit(IF isPartialRow THEN "<row flex justify-center>" ELSE "<row grid>") >>
                \o Concat([k \in 1..Len(rowCategories) |->
                             SkillCard(rowCategories[k],
                                       (CHOOSE j \in 1..Len(pd.skills[1].categories[1]) :
                                          pd.skills[1].categories[1][j] = rowCategories[k]) - 1,
                                       isPartialRow)])
                \o << Lit("</row>") >>
       IN IF Len(categoriesWithSkills) = 0 THEN << Lit("No skills added yet") >>
          ELSE << Lit("<skills-cards>") >>
               \o Join([r \in 1..Len(chunks) |-> Row(r)], << NL >>)
               \o << Lit("</skills-cards>") >>

generateSkillsCards ==
  IF pd.skills = None \/ pd.skills[1].categories = None THEN << >>
  ELSE LET categoriesWithSkills == SelectSeq(pd.skills[1].categories[1], HasSkillList)
           chunks == Rows(categoriesWithSkills, RowSize)
           Row(r) ==
             LET rowCategories == chunks[r]
                 isPartialRow == Len(rowCategories) < RowSize
             IN << Lit(IF isPartialRow THEN "<row flex justify-center>" ELSE "<row grid>") >>
                \o Concat([k \in 1..Len(rowCategories) |->
                             SkillCard(rowCategories[k], (r - 1) * RowSize + (k - 1),
                                       isPartialRow)])
                \o << Lit("</row>") >>
       IN IF Len(categoriesWithSkills) = 0 THEN << Lit("No skills added yet") >>
          ELSE << Lit("<skills-cards>") >>
               \o Join([r \in 1..Len(chunks) |-> Row(r)], << NL >>)
               \o << Lit("</skills-cards>") >>

\* String.prototype.split('\n\n')
RECURSIVE SplitParagraphs(_, _)
SplitParagraphs(s, cur) ==
  IF s = << >> THEN << cur >>
  ELSE IF Len(s) >= 2 /\ s[1] = "\n" /\ s[2] = "\n"
       THEN << cur >> \o SplitParagraphs(SubSeq(s, 3, Len(s)), << >>)
       ELSE SplitParagraphs(Tail(s), Append(cur, Head(s)))

\* variant of hasSkills that asks for a category with a non-empty list
hasSkills_someList ==
  /\ pd.skills # None
  /\ pd.skills[1].categories # None
  /\ \E i \in 1..Len(pd.skills[1].categories[1]) :
       HasSkillList(pd.skills[1].categories[1][i])

hasSkills ==
  /\ pd.skills # None
  /\ \/ IsSet(pd.skills[1].categories)
     \/ IsSet(pd.skills[1].skills)

generateAboutSection ==
  IF ~Includes(sectionOrder, "about") THEN << >>
  ELSE LET aboutText == OrElse(pd.aboutText, << "Add your about text here" >>)
           paragraphs == SplitParagraphs(aboutText, << >>)
           skillsDisplayMode == IF pd.skillsDisplayMode = None THEN "card"
                                ELSE pd.skillsDisplayMode[1]
       IN << Lit("<section id=about>"), Val("primaryColor", primaryColor) >>
          \o Concat([i \in 1..Len(paragraphs) |->
                       << Lit("<p>"), Val("aboutText", escapeHtml(paragraphs[i])) >>])
          \o << Lit("<!-- Skills Section -->") >>
          \o (IF hasSkills
              THEN (IF skillsDisplayMode = "rotating" THEN generateSkillsCarousel
                    ELSE generateSkillsCards)
              ELSE << Lit("<!-- No skills data -->") >>)
          \o << Lit("</section about>") >>

MaxTags == 3

\* variant of ProjectCard that shows every skill tag
ProjectCard_allTags(project, isPartialRow) ==
  << Lit(IF isPartialRow THEN "<card w-80>" ELSE "<card w-full>"),
     Lit(IF project.imageBg = Some("white") THEN "bg-white"
         ELSE IF project.imageBg = Some("black") THEN "bg-black" ELSE "bg-gray-100") >>
  \o (IF IsSet(project.image)
      THEN << Val("project.image", escapeHtml(project.image[1])),
              Val("project.title", escapeHtml(project.title)),
              Val("project.imageStyle", OrElse(project.imageStyle, << "cover" >>)) >>
      ELSE << Lit("image placeholder") >>)
  \o << Val("project.title", escapeHtml(project.title)),
        Val("project.summary",
            escapeHtml(IF IsSet(project.summary) THEN project.summary[1]
                       ELSE StrOf(project.description))) >>
  \o (IF IsSet(project.skills)
      THEN LET sk == project.skills[1]
           IN << Lit("<tags>") >>
              \o Concat([i \in 1..Len(sk) |->
                           << Val("secondaryColor", secondaryColor),
                              Val("secondaryColor", secondaryColor),
                              Val("project.skill", escapeHtml(sk[i])) >>])
              \o (IF Len(sk) > MaxTags
                  THEN << More(Len(sk) - MaxTags) >>
                  ELSE << >>)
              \o << Lit("</tags>") >>
      ELSE << >>)
  \o << Lit("</card>") >>

ProjectCard(project, isPartialRow) ==
  << Lit(IF isPartialRow THEN "<card w-80>" ELSE "<card w-full>"),
     Lit(IF project.imageBg = Some("white") THEN "bg-white"
         ELSE IF project.imageBg = Some("black") THEN "bg-black" ELSE "bg-gray-100") >>
  \o (IF IsSet(project.image)
      THEN << Val("project.image", escapeHtml(project.image[1])),
              Val("project.title", escapeHtml(project.title)),
              Val("project.imageStyle", OrElse(project.imageStyle, << "cover" >>)) >>
      ELSE << Lit("image placeholder") >>)
  \o << Val("project.title", escapeHtml(project.title)),
        Val("project.summary",
            escapeHtml(IF IsSet(project.summary) THEN project.summary[1]
                       ELSE StrOf(project.description))) >>
  \o (IF IsSet(project.skills)
      THEN LET sk == project.skills[1]
               shown == SubSeq(sk, 1, Min(MaxTags, Len(sk)))
           IN << Lit("<tags>") >>
              \o Concat([i \in 1..Len(shown) |->
                           << Val("secondaryColor", secondaryColor),
                              Val("secondaryColor", secondaryColor),
                              Val("project.skill", escapeHtml(shown[i])) >>])
              \o (IF Len(sk) > MaxTags
                  THEN << More(Len(sk) - MaxTags) >>
                  ELSE << >>)
              \o << Lit("</tags>") >>
      ELSE << >>)
  \o << Lit("</card>") >>

generateProjectsSection ==
  IF ~Includes(sectionOrder, "projects") \/ ~IsSet(pd.projects) THEN << >>
  ELSE LET chunks == Rows(pd.projects[1], RowSize)
           Row(r) ==
             LET rowProjects == chunks[r]
                 isPartialRow == Len(rowProjects) < RowSize
             IN << Lit(IF isPartialRow THEN "<row flex justify-center>" ELSE "<row grid>") >>
                \o Concat([k \in 1..Len(rowProjects) |->
                             ProjectCard(rowProjects[k], isPartialRow)])
                \o << Lit("</row>") >>
       IN << Lit("<section id=projects>"), Val("primaryColor", primaryColor),
             Val("projectsDescription",
                 escapeHtml(OrElse(pd.projectsDescription, << "Explore some of my recent work" >>))) >>
          \o Join([r \in 1..Len(chunks) |-> Row(r)], << NL >>)
          \o << Val("primaryColor", primaryColor), Lit("</section projects>") >>

\* [...new Set(timelineData.map(item => item.type))]: first occurrences, in order
RECURSIVE Unique(_, _)
Unique(s, seen) ==
  IF s = << >> THEN seen
  ELSE Unique(Tail(s), IF Includes(seen, Head(s)) THEN seen ELSE Append(seen, Head(s)))

typeOrder == << "education", "experience", "research" >>

TypeName(type) ==
  CASE type = "education" -> "Education"
    [] type = "experience" -> "Experience"
    [] type = "research" -> "Research"
    [] OTHER -> type

\* variant of generateTimelineTitle that keeps the types in input order
generateTimelineTitle_inputOrder(timelineData) ==
  LET types == Unique([i \in 1..Len(timelineData) |-> timelineData[i].type], << >>)
      Recognized(type) == Includes(typeOrder, type)
      orderedTypes == SelectSeq(types, Recognized)
      typeNames == [i \in 1..Len(orderedTypes) |-> TypeName(orderedTypes[i])]
  IN IF Len(types) = 0 THEN << "Education, Experience ", "&", " Research" >>
     ELSE IF Len(typeNames) = 1 THEN << typeNames[1] >>
     ELSE IF Len(typeNames) = 2 THEN << typeNames[1], " ", "&", " ", typeNames[2] >>
     ELSE Join([i \in 1..(Len(typeNames) - 1) |-> << typeNames[i] >>], << ", " >>)
          \o << ", ", "&", " " >>
          \o << IF Len(typeNames) = 0 THEN "undefined" ELSE typeNames[Len(typeNames)] >>

\* generateTimelineTitle(timelineData), a string
generateTimelineTitle(timelineData) ==
  LET types == Unique([i \in 1..Len(timelineData) |-> timelineData[i].type], << >>)
      InTypes(type) == Includes(types, type)
      orderedTypes == SelectSeq(typeOrder, InTypes)
      typeNames == [i \in 1..Len(orderedTypes) |-> TypeName(orderedTypes[i])]
  IN IF Len(types) = 0 THEN << "Education, Experience ", "&", " Research" >>
     ELSE IF Len(typeNames) = 1 THEN << typeNames[1] >>
     ELSE IF Len(typeNames) = 2 THEN << typeNames[1], " ", "&", " ", typeNames[2] >>
     ELSE Join([i \in 1..(Len(typeNames) - 1) |-> << typeNames[i] >>], << ", " >>)
          \o << ", ", "&", " " >>
          \o << IF Len(typeNames) = 0 THEN "undefined" ELSE typeNames[Len(typeNames)] >>

\* variant of TimelineItem that starts on the other side
TimelineItem_otherSide(item, index) ==
  LET badgeColor == IF item.type = "education" THEN primaryColor
                    ELSE IF item.type = "research" THEN << "#8b5cf6" >>
                    ELSE << "#0ea5e9" >>
  IN << Lit(IF index % 2 = 1 THEN "<item flex-row pr-8 text-right>"
            ELSE "<item flex-row-reverse pl-8 text-left>"),
        Val("badgeColor", badgeColor),
        Lit(IF item.type = "education" THEN "Education"
            ELSE IF item.type = "research" THEN "Research" ELSE "Experience"),
        Val("item.year", escapeHtml(item.year)),
        Val("primaryColor", primaryColor),
        Val("item.title", escapeHtml(item.title)),
        Val("secondaryColor", secondaryColor),
        Val("item.organization", escapeHtml(item.organization)) >>
     \o (IF IsSet(item.description)
         THEN << Val("item.description", escapeHtml(item.description[1])) >> ELSE << >>)
     \o << Lit("</item>") >>

TimelineItem(item, index) ==
  LET badgeColor == IF item.type = "education" THEN primaryColor
                    ELSE IF item.type = "research" THEN << "#8b5cf6" >>
                    ELSE << "#0ea5e9" >>
  IN << Lit(IF index % 2 = 0 THEN "<item flex-row pr-8 text-right>"
            ELSE "<item flex-row-reverse pl-8 text-left>"),
        Val("badgeColor", badgeColor),
        Lit(IF item.type = "education" THEN "Education"
            ELSE IF item.type = "research" THEN "Research" ELSE "Experience"),
        Val("item.year", escapeHtml(item.year)),
        Val("primaryColor", primaryColor),
        Val("item.title", escapeHtml(item.title)),
        Val("secondaryColor", secondaryColor),
        Val("item.organization", escapeHtml(item.organization)) >>
     \o (IF IsSet(item.description)
         THEN << Val("item.description", escapeHtml(item.description[1])) >> ELSE << >>)
     \o << Lit("</item>") >>

DownloadButton(f, url) ==
  << Lit("<a download>"), Val(f, escapeHtml(url)),
     Val("secondaryColor", secondaryColor), Val("secondaryColor", secondaryColor),
     Val("secondaryColor", secondaryColor), Val("secondaryColor", secondaryColor) >>

generateTimelineSection ==
  IF ~Includes(sectionOrder, "timeline") \/ ~IsSet(pd.timeline) THEN << >>
  ELSE LET timelineTitle == generateTimelineTitle(pd.timeline[1])
       IN << Lit("<section id=timeline>"), Val("primaryColor", primaryColor),
             Lit(IF IsSet(pd.references) THEN "resume and references" ELSE "resume") >>
          \o (IF IsSet(pd.resumeUrl) THEN DownloadButton("resumeUrl", pd.resumeUrl[1])
              ELSE << >>)
          \o (IF IsSet(pd.referencesUrl)
              THEN DownloadButton("referencesUrl", pd.referencesUrl[1]) ELSE << >>)
          \o << Val("primaryColor", primaryColor),
                Val("timelineTitle", escapeHtml(timelineTitle)) >>
          \o Concat([i \in 1..Len(pd.timeline[1]) |-> TimelineItem(pd.timeline[1][i], i - 1)])
          \o << Lit("</section timeline>") >>

\* String.prototype.replace(str, ''): the first occurrence only
RECURSIVE ReplaceFirst(_, _)
ReplaceFirst(s, c) ==
  IF s = << >> THEN << >>
  ELSE IF Head(s) = c THEN Tail(s)
  ELSE << Head(s) >> \o ReplaceFirst(Tail(s), c)

\* portfolioData.contact?.field, as an optional string
ContactField(f) == IF pd.contact = None THEN None ELSE pd.contact[1][f]

\* variant of GithubLink that needs the contact object
GithubLink_fromContact ==
  IF pd.contact = None \/ pd.links = None THEN None ELSE pd.links[1].github

GithubLink == IF pd.links = None THEN None ELSE pd.links[1].github

ContactMethod(kind, f, href, text) ==
  << Lit(kind), Val("primaryColor", primaryColor), Val(f, escapeHtml(href)),
     Val("secondaryColor", secondaryColor), Val("primaryColor", primaryColor),
     Val("secondaryColor", secondaryColor), Val(f, escapeHtml(text)) >>

generateContactSection ==
  IF ~Includes(sectionOrder, "contact") THEN << >>
  ELSE LET hasEmail == IsSet(ContactField("email"))
           hasLinkedin == IsSet(ContactField("linkedin"))
           hasPhone == IsSet(ContactField("phone"))
           hasGithub == IsSet(GithubLink)
           hasAreasOfInterest == IsSet(ContactField("areasOfInterest"))
       IN << Lit("<section id=contact>"), Val("primaryColor", primaryColor),
             Val("contactIntro",
                 escapeHtml(OrElse(pd.contactIntro, << "I", "'", "m always interested" >>))),
             Lit("<contact-methods>") >>
          \o (IF hasEmail
              THEN ContactMethod("Email", "contact.email", pd.contact[1].email[1],
                                 pd.contact[1].email[1])
              ELSE << >>)
          \o (IF hasLinkedin
              THEN ContactMethod("LinkedIn", "contact.linkedin", pd.contact[1].linkedin[1],
                     ReplaceFirst(ReplaceFirst(pd.contact[1].linkedin[1], "https://"),
                                  "linkedin.com/in/"))
              ELSE << >>)
          \o (IF hasPhone
              THEN ContactMethod("Phone", "contact.phone", pd.contact[1].phone[1],
                                 pd.contact[1].phone[1])
              ELSE << >>)
          \o (IF hasGithub
              THEN ContactMethod("GitHub", "links.github", pd.links[1].github[1],
                     ReplaceFirst(ReplaceFirst(ReplaceFirst(pd.links[1].github[1],
                                    "https://"), "http://"), "github.com/"))
              ELSE << >>)
          \o << Lit("</contact-methods>") >>
          \o (IF hasAreasOfInterest
              THEN << Lit("Areas of Interest") >>
                   \o Concat([i \in 1..Len(pd.contact[1].areasOfInterest[1]) |->
                                << Val("secondaryColor", secondaryColor),
                                   Val("secondaryColor", secondaryColor),
                                   Val("contact.areaOfInterest",
                                       escapeHtml(pd.contact[1].areasOfInterest[1][i])) >>])
              ELSE << >>)
          \o << Lit("</section contact>") >>

NonEmpty(s) == s # << >>

FooterLink(kind, f, href) ==
  << Lit(kind), Val(f, escapeHtml(href)), Val("accentColor", accentColor),
     Val("accentColor", accentColor) >>

\* variant of generateFooter that does not trim the descriptors
generateFooter_noTrim ==
  LET hasEmail == IsSet(ContactField("email"))
      hasLinkedin == IsSet(ContactField("linkedin"))
      hasGithub == IsSet(GithubLink)
      footerText ==
        IF IsSet(pd.footerDescriptors)
        THEN Join(SelectSeq([i \in 1..Len(pd.footerDescriptors[1]) |->
                            escapeHtml(pd.footerDescriptors[1][i])], NonEmpty),
                  << " | " >>)
        ELSE escapeHtml(StrOf(pd.title))
  IN << Lit("<footer>"), Val("primaryColor", primaryColor),
        Val("footer.name", escapeHtml(StrOf(pd.name))),
        Val("accentColor", accentColor), Val("footerText", footerText) >>
     \o (IF hasEmail THEN FooterLink("mailto", "contact.email", pd.contact[1].email[1])
         ELSE << >>)
     \o (IF hasLinkedin
         THEN FooterLink("linkedin", "contact.linkedin", pd.contact[1].linkedin[1])
         ELSE << >>)
     \o (IF hasGithub THEN FooterLink("github", "links.github", pd.links[1].github[1])
         ELSE << >>)
     \o << Val("secondaryColor", secondaryColor), Val("accentColor", accentColor),
           Val("footer.name", escapeHtml(StrOf(pd.name))), Lit("</footer>") >>

generateFooter ==
  LET hasEmail == IsSet(ContactField("email"))
      hasLinkedin == IsSet(ContactField("linkedin"))
      hasGithub == IsSet(GithubLink)
      footerText ==
        IF IsSet(pd.footerDescriptors)
        THEN Join(SelectSeq([i \in 1..Len(pd.footerDescriptors[1]) |->
                            escapeHtml(Trim(pd.footerDescriptors[1][i]))], NonEmpty),
                  << " | " >>)
        ELSE escapeHtml(StrOf(pd.title))
  IN << Lit("<footer>"), Val("primaryColor", primaryColor),
        Val("footer.name", escapeHtml(StrOf(pd.name))),
        Val("accentColor", accentColor), Val("footerText", footerText) >>
     \o (IF hasEmail THEN FooterLink("mailto", "contact.email", pd.contact[1].email[1])
         ELSE << >>)
     \o (IF hasLinkedin
         THEN FooterLink("linkedin", "contact.linkedin", pd.contact[1].linkedin[1])
         ELSE << >>)
     \o (IF hasGithub THEN FooterLink("github", "links.github", pd.links[1].github[1])
         ELSE << >>)
     \o << Val("secondaryColor", secondaryColor), Val("accentColor", accentColor),
           Val("footer.name", escapeHtml(StrOf(pd.name))), Lit("</footer>") >>

(***************************************************************************)
(* Page assemblers                                                         *)
(***************************************************************************)
\* the condition of the References nav link of the main page
NavReferencesCond ==
  \/ (IsSet(pd.referencesUrl) /\ Trim(pd.referencesUrl[1]) # << >>)
  \/ IsSet(pd.references)

\* the switch of generateCompleteHTML
SectionFragment_skillsOwn(sectionId) ==
  CASE sectionId = "hero" -> generateHeroSection
    [] sectionId = "about" -> generateAboutSection
    [] sectionId = "skills" -> generateSkillsCards
    [] sectionId = "projects" -> generateProjectsSection
    [] sectionId = "timeline" -> generateTimelineSection
    [] sectionId = "contact" -> generateContactSection
    [] OTHER -> << >>

SectionFragment(sectionId) ==
  CASE sectionId = "hero" -> generateHeroSection
    [] sectionId = "about" -> generateAboutSection
    [] sectionId = "skills" -> << >>
    [] sectionId = "projects" -> generateProjectsSection
    [] sectionId = "timeline" -> generateTimelineSection
    [] sectionId = "contact" -> generateContactSection
    [] OTHER -> << >>

\* sectionOrder.map(...).join('\n') with duplicates dropped
Sections_dedup ==
  LET order == Unique(sectionOrder, << >>)
  IN Join([i \in 1..Len(order) |-> SectionFragment(order[i])], << NL >>)

\* sectionOrder.map(...).join('\n')
Sections ==
  Join([i \in 1..Len(sectionOrder) |-> SectionFragment(sectionOrder[i])], << NL >>)

dynamicCSS ==
  << Val("primaryColor", primaryColor), Val("secondaryColor", secondaryColor),
     Val("accentColor", accentColor), Val("backgroundColor", backgroundColor),
     Val("textColor", textColor) >>

generateCompleteHTML ==
  << Lit("<!DOCTYPE html>"),
     Val("name", escapeHtml(OrElse(pd.name, << "Portfolio" >>))), Lit("<style>") >>
  \o dynamicCSS
  \o << Lit("<nav>"), Val("primaryColor", primaryColor),
        Val("secondaryColor", secondaryColor), Val("primaryColor", primaryColor),
        Val("name", escapeHtml(OrElse(pd.name, << "Portfolio" >>))),
        Lit("<a href=#about>"), Val("primaryColor", primaryColor),
        Lit("<a href=#projects>"), Val("primaryColor", primaryColor),
        Lit("<a href=#timeline>"), Val("primaryColor", primaryColor) >>
  \o (IF NavReferencesCond
      THEN << Lit("<a href=references.html>"), Val("primaryColor", primaryColor) >>
      ELSE << >>)
  \o << Lit("<a href=#contact>"), Val("primaryColor", primaryColor), Lit("</nav>"),
        Lit("<main>") >>
  \o Sections
  \o << Lit("</main>") >>
  \o generateFooter
  \o << Lit("</html>") >>

\* variant of ThemeOr that uses the defaults unless every color is given
ThemeOr_allOrNothing(f, d) ==
  IF pd.themeColors = None
     \/ \E g \in { "primary", "secondary", "accent", "background", "text" } :
          ~IsSet(pd.themeColors[1][g])
  THEN d ELSE pd.themeColors[1][f][1]

\* themeColors.<f> || d, with themeColors = portfolioData.themeColors || {}
ThemeOr(f, d) ==
  IF pd.themeColors = None THEN d ELSE OrElse(pd.themeColors[1][f], d)

\* String.prototype.split(' ')
RECURSIVE SplitWords(_, _)
SplitWords(s, cur) ==
  IF s = << >> THEN << cur >>
  ELSE IF Head(s) = " " THEN << cur >> \o SplitWords(Tail(s), << >>)
  ELSE SplitWords(Tail(s), Append(cur, Head(s)))

\* ref.name.split(' ').map(n => n[0]).join('')
Initials(name) ==
  LET words == SplitWords(name, << >>)
  IN Concat([i \in 1..Len(words) |->
               IF words[i] = << >> THEN << >> ELSE << words[i][1] >>])

ReferenceCard(ref, primary, secondary) ==
  << Lit("<reference>"), Val("primaryColor", primary),
     Val("ref.initials", escapeHtml(Initials(ref.name))),
     Val("primaryColor", primary), Val("ref.name", escapeHtml(ref.name)),
     Val("secondaryColor", secondary), Val("ref.title", escapeHtml(ref.title)),
     Val("ref.company", escapeHtml(ref.company)),
     Val("ref.relationship", escapeHtml(StrOf(ref.relationship))),
     Val("ref.description",
         escapeHtml(IF IsSet(ref.description) THEN ref.description[1]
                    ELSE StrOf(ref.testimonial))),
     Val("secondaryColor", secondary), Val("ref.email", escapeHtml(ref.email)),
     Val("secondaryColor", secondary), Val("ref.email", escapeHtml(ref.email)) >>
  \o (IF IsSet(ref.phone)
      THEN << Val("secondaryColor", secondary), Val("ref.phone", escapeHtml(ref.phone[1])),
              Val("secondaryColor", secondary), Val("ref.phone", escapeHtml(ref.phone[1])) >>
      ELSE << >>)
  \o (IF IsSet(ref.linkedin)
      THEN << Val("secondaryColor", secondary),
              Val("ref.linkedin", escapeHtml(ref.linkedin[1])),
              Val("secondaryColor", secondary),
              Val("ref.linkedin", escapeHtml(ref.linkedin[1])) >>
      ELSE << >>)
  \o << Lit("</reference>") >>

\* portfolioData.references.map throws a TypeError when references is undefined
generateReferencesHTMLThrows == pd.references = None

generateReferencesHTML ==
  LET primary == ThemeOr("primary", << "#0B3D91" >>)
      secondary == ThemeOr("secondary", << "#17A2B8" >>)
      accent == ThemeOr("accent", << "#F3F4F6" >>)
  IN << Lit("<!DOCTYPE html>"), Val("name", escapeHtml(StrOf(pd.name))),
        Lit("<nav>"), Val("primaryColor", primary), Val("secondaryColor", secondary),
        Val("primaryColor", primary), Val("name", escapeHtml(StrOf(pd.name))),
        Lit("<a href=index.html#about>"), Val("primaryColor", primary),
        Lit("<a href=index.html#projects>"), Val("primaryColor", primary),
        Lit("<a href=index.html#timeline>"), Val("primaryColor", primary),
        Lit("<span References>"), Val("primaryColor", primary),
        Lit("<a href=index.html#contact>"), Val("primaryColor", primary), Lit("</nav>"),
        Lit("<header>"), Val("primaryColor", primary), Val("secondaryColor", secondary) >>
     \o (IF IsSet(pd.referencesUrl)
         THEN << Lit("<a download>"), Val("referencesUrl", escapeHtml(pd.referencesUrl[1])),
                 Val("primaryColor", primary) >>
         ELSE << >>)
     \o << Lit("</header>"), Lit("<references>") >>
     \o Concat([i \in 1..Len(pd.references[1]) |->
                  ReferenceCard(pd.references[1][i], primary, secondary)])
     \o << Lit("</references>"), Val("primaryColor", primary),
           Val("secondaryColor", secondary), Val("primaryColor", primary),
           Lit("<footer>"), Val("primaryColor", primary),
           Val("footer.name", escapeHtml(StrOf(pd.name))), Val("accentColor", accent),
           Val("title", escapeHtml(StrOf(pd.title))) >>
     \o (IF IsSet(ContactField("email"))
         THEN << Val("contact.email", escapeHtml(pd.contact[1].email[1])),
                 Val("accentColor", accent), Val("accentColor", accent) >>
         ELSE << >>)
     \o (IF IsSet(ContactField("phone"))
         THEN << Val("contact.phone", escapeHtml(pd.contact[1].phone[1])),
                 Val("accentColor", accent), Val("accentColor", accent) >>
         ELSE << >>)
     \o (IF IsSet(ContactField("linkedin"))
         THEN << Val("contact.linkedin", escapeHtml(pd.contact[1].linkedin[1])),
                 Val("accentColor", accent), Val("accentColor", accent) >>
         ELSE << >>)
     \o << Lit("</footer>"), Lit("</html>") >>

ProjectPageCard(project, primary, accent) ==
  << Lit("<project>"), Val("primaryColor", primary),
     Val("project.title", escapeHtml(project.title)),
     Val("project.description", escapeHtml(StrOf(project.description))) >>
  \o (IF IsSet(project.technologies)
      THEN Concat([i \in 1..Len(project.technologies[1]) |->
                     << Val("accentColor", accent), Val("primaryColor", primary),
                        Val("project.technology", escapeHtml(project.technologies[1][i])) >>])
      ELSE << >>)
  \o (IF IsSet(project.githubUrl)
      THEN << Val("project.githubUrl", escapeHtml(project.githubUrl[1])),
              Val("primaryColor", primary) >>
      ELSE << >>)
  \o (IF IsSet(project.liveUrl)
      THEN << Val("project.liveUrl", escapeHtml(project.liveUrl[1])),
              Val("primaryColor", primary), Val("primaryColor", primary) >>
      ELSE << >>)
  \o << Lit("</project>") >>

generateProjectsHTML ==
  LET primary == ThemeOr("primary", << "#0B3D91" >>)
      secondary == ThemeOr("secondary", << "#17A2B8" >>)
      accent == ThemeOr("accent", << "#F3F4F6" >>)
  IN << Lit("<!DOCTYPE html>"), Val("name", escapeHtml(StrOf(pd.name))),
        Lit("<nav>"), Val("primaryColor", primary), Val("secondaryColor", secondary),
        Val("primaryColor", primary), Val("name", escapeHtml(StrOf(pd.name))),
        Lit("<a href=index.html#about>"), Val("primaryColor", primary),
        Lit("<span Projects>"), Val("primaryColor", primary),
        Lit("<a href=index.html#timeline>"), Val("primaryColor", primary),
        Lit("<a href=references.html>"), Val("primaryColor", primary),
        Lit("<a href=index.html#contact>"), Val("primaryColor", primary), Lit("</nav>"),
        Lit("<header>"), Val("primaryColor", primary), Val("secondaryColor", secondary),
        Val("projectsDescription",
            escapeHtml(OrElse(pd.projectsDescription, << "Explore my recent work and projects" >>))),
        Lit("</header>"), Lit("<projects>") >>
     \o Concat([i \in 1..Len(pd.projects[1]) |->
                  ProjectPageCard(pd.projects[1][i], primary, accent)])
     \o << Lit("</projects>"), Lit("<footer>"), Val("primaryColor", primary),
           Val("footer.name", escapeHtml(StrOf(pd.name))), Val("accentColor", accent),
           Val("title", escapeHtml(StrOf(pd.title))), Lit("</footer>"), Lit("</html>") >>

(***************************************************************************)
(* The top-level script                                                    *)
(***************************************************************************)
envVars == << argv, disk, failWrites >>

themeVars ==
  << primaryColor, secondaryColor, accentColor, backgroundColor, textColor, sectionOrder >>

pageVars == << htmlContent, referencesContent, projectsContent >>

Init ==
  /\ \E r \in Runs :
       /\ argv = r.arg
       /\ disk = [kind |-> r.kind, doc |-> r.doc]
       /\ failWrites = r.fail
  /\ pc = "args"
  /\ portfolioData = None
  /\ primaryColor = << >> /\ secondaryColor = << >> /\ accentColor = << >>
  /\ backgroundColor = << >> /\ textColor = << >>
  /\ sectionOrder = << >>
  /\ htmlContent = None /\ referencesContent = None /\ projectsContent = None
  /\ files = [f \in FileNames |-> None]
  /\ writeLog = << >>
  /\ reads = 0
  /\ stderr = << >>
  /\ exitCode = None

\* an uncaught exception ends the process with a non-zero status
Throw ==
  /\ pc' = "crashed"
  /\ exitCode' = Some(1)
  /\ stderr' = Append(stderr, "uncaught exception")

\* fs.writeFileSync(path, content), then continue at next
WriteFile(name, content, next) ==
  IF name \in failWrites
  THEN /\ writeLog' = Append(writeLog, [file |-> name, ok |-> FALSE])
       /\ files' = files
       /\ Throw
  ELSE /\ writeLog' = Append(writeLog, [file |-> name, ok |-> TRUE])
       /\ files' = [files EXCEPT ![name] = Some(content)]
       /\ pc' = next
       /\ UNCHANGED << exitCode, stderr >>

\* if (!dataFilePath) { console.error(usage); process.exit(1); }, falling through
CheckArgs_noExit ==
  /\ pc = "args"
  /\ stderr' = IF argv THEN stderr ELSE Append(stderr, "Usage: node HTML-compile-complete.js <data-file-path>")
  /\ pc' = "read"
  /\ UNCHANGED << exitCode, envVars, portfolioData, themeVars, pageVars, files, writeLog, reads >>

\* if (!dataFilePath) { console.error(usage); process.exit(1); }
CheckArgs ==
  /\ pc = "args"
  /\ IF argv
     THEN pc' = "read" /\ UNCHANGED << stderr, exitCode >>
     ELSE /\ stderr' = Append(stderr, "Usage: node HTML-compile-complete.js <data-file-path>")
          /\ exitCode' = Some(1)
          /\ pc' = "exited"
  /\ UNCHANGED << envVars, portfolioData, themeVars, pageVars, files, writeLog, reads >>

\* JSON.parse(fs.readFileSync(...)) inside try/catch with an empty document
ReadData_swallow ==
  /\ pc = "read"
  /\ reads' = reads + 1
  /\ portfolioData' = IF disk.kind = "null" THEN None ELSE Some(disk.doc)
  /\ pc' = "theme"
  /\ UNCHANGED << exitCode, stderr, envVars, themeVars, pageVars, files, writeLog >>

\* const portfolioData = JSON.parse(fs.readFileSync(dataFilePath, 'utf8'))
ReadData ==
  /\ pc = "read"
  /\ reads' = reads + 1
  /\ IF ~argv \/ disk.kind \in { "unreadable", "malformed" }
     THEN Throw /\ UNCHANGED portfolioData
     ELSE /\ portfolioData' = IF disk.kind = "null" THEN None ELSE Some(disk.doc)
          /\ pc' = "theme"
          /\ UNCHANGED << exitCode, stderr >>
  /\ UNCHANGED << envVars, themeVars, pageVars, files, writeLog >>

\* variant of ResolveTheme that takes an empty sectionOrder for an absent one
ResolveTheme_emptyIsAbsent ==
  /\ pc = "theme"
  /\ IF portfolioData = None
     THEN Throw /\ UNCHANGED themeVars
     ELSE /\ primaryColor' = ThemeOr("primary", << "#0B3D91" >>)
          /\ secondaryColor' = ThemeOr("secondary", << "#17A2B8" >>)
          /\ accentColor' = ThemeOr("accent", << "#F3F4F6" >>)
          /\ backgroundColor' = ThemeOr("background", << "#ffffff" >>)
          /\ textColor' = ThemeOr("text", << "#1f2937" >>)
          /\ sectionOrder' = IF ~IsSet(pd.sectionOrder) THEN DefaultSectionOrder
                             ELSE pd.sectionOrder[1]
          /\ pc' = "main"
          /\ UNCHANGED << exitCode, stderr >>
  /\ UNCHANGED << envVars, portfolioData, pageVars, files, writeLog, reads >>

\* the module-level constants: theme colors and section order
ResolveTheme ==
  /\ pc = "theme"
  /\ IF portfolioData = None
     THEN Throw /\ UNCHANGED themeVars
     ELSE /\ primaryColor' = ThemeOr("primary", << "#0B3D91" >>)
          /\ secondaryColor' = ThemeOr("secondary", << "#17A2B8" >>)
          /\ accentColor' = ThemeOr("accent", << "#F3F4F6" >>)
          /\ backgroundColor' = ThemeOr("background", << "#ffffff" >>)
          /\ textColor' = ThemeOr("text", << "#1f2937" >>)
          /\ sectionOrder' = IF pd.sectionOrder = None THEN DefaultSectionOrder
                             ELSE pd.sectionOrder[1]
          /\ pc' = "main"
          /\ UNCHANGED << exitCode, stderr >>
  /\ UNCHANGED << envVars, portfolioData, pageVars, files, writeLog, reads >>

\* variant of GenerateMain that fills in the default display mode in place
GenerateMain_normalises ==
  /\ pc = "main"
  /\ htmlContent' = Some(generateCompleteHTML)
  /\ portfolioData' = Some([pd EXCEPT !.skillsDisplayMode = Some("card")])
  /\ pc' = "writeIndex"
  /\ UNCHANGED << envVars, themeVars, referencesContent, projectsContent,
                  files, writeLog, reads, stderr, exitCode >>

\* const htmlContent = generateCompleteHTML()
GenerateMain ==
  /\ pc = "main"
  /\ htmlContent' = Some(generateCompleteHTML)
  /\ pc' = "writeIndex"
  /\ UNCHANGED << envVars, portfolioData, themeVars, referencesContent, projectsContent,
                  files, writeLog, reads, stderr, exitCode >>

\* fs.writeFileSync(indexPath, htmlContent) inside try/catch
WriteIndex_swallow ==
  /\ pc = "writeIndex"
  /\ writeLog' = Append(writeLog, [file |-> "index.html", ok |-> "index.html" \notin failWrites])
  /\ files' = IF "index.html" \in failWrites THEN files
              ELSE [files EXCEPT !["index.html"] = htmlContent]
  /\ pc' = "refs"
  /\ UNCHANGED << envVars, portfolioData, themeVars, pageVars, reads, stderr, exitCode >>

\* fs.writeFileSync(indexPath, htmlContent)
WriteIndex ==
  /\ pc = "writeIndex"
  /\ WriteFile("index.html", htmlContent[1], "refs")
  /\ UNCHANGED << envVars, portfolioData, themeVars, pageVars, reads >>

\* the condition of the references write
WriteReferencesCond ==
  \/ (IsSet(pd.referencesUrl) /\ Trim(pd.referencesUrl[1]) # << >>)
  \/ IsSet(pd.references)

\* variant of GenerateReferences that goes on to the projects page when rendering fails
GenerateReferences_goOn ==
  /\ pc = "refs"
  /\ IF ~WriteReferencesCond
     THEN pc' = "projects" /\ UNCHANGED << referencesContent, exitCode, stderr >>
     ELSE IF generateReferencesHTMLThrows
          THEN pc' = "projects" /\ UNCHANGED << referencesContent, exitCode, stderr >>
          ELSE /\ referencesContent' = Some(generateReferencesHTML)
               /\ pc' = "writeRefs"
               /\ UNCHANGED << exitCode, stderr >>
  /\ UNCHANGED << envVars, portfolioData, themeVars, htmlContent, projectsContent,
                  files, writeLog, reads >>

\* if (...) { const referencesContent = generateReferencesHTML(); ...
GenerateReferences ==
  /\ pc = "refs"
  /\ IF ~WriteReferencesCond
     THEN pc' = "projects" /\ UNCHANGED << referencesContent, exitCode, stderr >>
     ELSE IF generateReferencesHTMLThrows
          THEN Throw /\ UNCHANGED referencesContent
          ELSE /\ referencesContent' = Some(generateReferencesHTML)
               /\ pc' = "writeRefs"
               /\ UNCHANGED << exitCode, stderr >>
  /\ UNCHANGED << envVars, portfolioData, themeVars, htmlContent, projectsContent,
                  files, writeLog, reads >>

\* ... fs.writeFileSync(referencesPath, referencesContent) }
WriteReferences ==
  /\ pc = "writeRefs"
  /\ WriteFile("references.html", referencesContent[1], "projects")
  /\ UNCHANGED << envVars, portfolioData, themeVars, pageVars, reads >>

\* if (projects && projects.length > 0) { const projectsContent = generateProjectsHTML(); ...
GenerateProjects ==
  /\ pc = "projects"
  /\ IF ~IsSet(pd.projects)
     THEN pc' = "finish" /\ UNCHANGED projectsContent
     ELSE projectsContent' = Some(generateProjectsHTML) /\ pc' = "writeProjects"
  /\ UNCHANGED << envVars, portfolioData, themeVars, htmlContent, referencesContent,
                  files, writeLog, reads, stderr, exitCode >>

\* ... fs.writeFileSync(projectsPath, projectsContent) }
WriteProjects ==
  /\ pc = "writeProjects"
  /\ WriteFile("projects.html", projectsContent[1], "finish")
  /\ UNCHANGED << envVars, portfolioData, themeVars, pageVars, reads >>

\* the script runs off its end: exit status 0
Finish ==
  /\ pc = "finish"
  /\ pc' = "done"
  /\ exitCode' = Some(0)
  /\ UNCHANGED << envVars, portfolioData, themeVars, pageVars, files, writeLog, reads, stderr >>

Next ==
  \/ CheckArgs
  \/ ReadData
  \/ ResolveTheme
  \/ GenerateMain
  \/ WriteIndex
  \/ GenerateReferences
  \/ WriteReferences
  \/ GenerateProjects
  \/ WriteProjects
  \/ Finish

Spec == Init /\ [][Next]_vars

Terminal == pc \in { "done", "exited", "crashed" }

(***************************************************************************)
(* Properties                                                              *)
(***************************************************************************)
RecognizedSections == { "hero", "about", "projects", "timeline", "contact" }

\* position of the first token tok of a page (0 if none)
IndexOf(page, tok) ==
  IF \E i \in 1..Len(page) : page[i] = tok
  THEN CHOOSE i \in 1..Len(page) : page[i] = tok /\ \A j \in 1..(i - 1) : page[j] # tok
  ELSE 0

\* the tokens of a main page between <main> and </main>
MainBlock(page) ==
  SubSeq(page, IndexOf(page, Lit("<main>")) + 1, IndexOf(page, Lit("</main>")) - 1)

\* what the renderer of a recognized section produces
RendererOutput(id) ==
  CASE id = "hero" -> generateHeroSection
    [] id = "about" -> generateAboutSection
    [] id = "projects" -> generateProjectsSection
    [] id = "timeline" -> generateTimelineSection
    [] id = "contact" -> generateContactSection

\* C1: the main block of the page is one fragment per sectionOrder entry, in
\* the given order, joined by a newline, without reordering or deduplication;
\* an entry that is 'skills' or unrecognized contributes the empty fragment.
C1_OneFragmentPerEntry ==
  htmlContent # None =>
    MainBlock(htmlContent[1]) =
      Join([i \in 1..Len(sectionOrder) |->
              IF sectionOrder[i] \in RecognizedSections
              THEN RendererOutput(sectionOrder[i]) ELSE << >>],
           << NL >>)

C1_Witness ==
  /\ files["index.html"] # None
  /\ Len(sectionOrder) = 2
  /\ sectionOrder[1] \notin RecognizedSections
  /\ sectionOrder[2] = "contact"

\* the document has at least one category with a non-empty skill list
DocHasSkills ==
  /\ pd.skills # None
  /\ pd.skills[1].categories # None
  /\ \E i \in 1..Len(pd.skills[1].categories[1]) :
       HasSkillList(pd.skills[1].categories[1][i])

SkillsOpen == { Lit("<skills-cards>"), Lit("<skills-carousel>") }

SkillsBlocks(page) == Cardinality({ i \in 1..Len(page) : page[i] \in SkillsOpen })

\* the token at position i lies inside an about fragment
InsideAbout(page, i) ==
  Cardinality({ j \in 1..(i - 1) : page[j] = Lit("<section id=about>") })
    = Cardinality({ j \in 1..(i - 1) : page[j] = Lit("</section about>") }) + 1

\* C2 (as stated): with skills data, the skills content appears exactly once
\* on the main page, whatever sectionOrder is.
C2_SkillsExactlyOnce ==
  (htmlContent # None /\ DocHasSkills) => SkillsBlocks(htmlContent[1]) = 1

\* C2 (amended): with skills data, the skills content appears once per 'about'
\* entry of sectionOrder, each time nested inside that about fragment, and a
\* 'skills' entry produces nothing of its own.
C2_SkillsOncePerAbout ==
  (htmlContent # None /\ DocHasSkills) =>
    /\ SkillsBlocks(htmlContent[1]) = Count(sectionOrder, "about")
    /\ \A i \in 1..Len(htmlContent[1]) :
         htmlContent[1][i] \in SkillsOpen => InsideAbout(htmlContent[1], i)

C2_Witness ==
  /\ htmlContent # None
  /\ DocHasSkills
  /\ sectionOrder = << "skills", "about" >>
  /\ SkillsBlocks(htmlContent[1]) = 1

\* a run on a parseable document with a working file system
CleanRun == argv /\ disk.kind = "ok" /\ failWrites = { }

\* the trigger of the references page, on the document of the data file
DocReferencesTrigger ==
  \/ (IsSet(disk.doc.referencesUrl) /\ Trim(disk.doc.referencesUrl[1]) # << >>)
  \/ IsSet(disk.doc.references)

\* C3: a run writes references.html if and only if referencesUrl is non-empty
\* after trimming or references is a non-empty sequence.
C3_ReferencesIffTrigger ==
  (Terminal /\ CleanRun) => (files["references.html"] # None <=> DocReferencesTrigger)

Written == { f \in FileNames : files[f] # None }

\* C4: the files of a run are index.html, projects.html exactly when projects
\* is non-empty and references.html exactly when its trigger holds, each
\* written at most once.
C4_FileSet ==
  (Terminal /\ CleanRun) =>
    /\ Written = { "index.html" }
                 \cup (IF IsSet(disk.doc.projects) THEN { "projects.html" } ELSE { })
                 \cup (IF DocReferencesTrigger THEN { "references.html" } ELSE { })
    /\ \A i, j \in 1..Len(writeLog) : writeLog[i].file = writeLog[j].file => i = j

\* C5: a document with any subset of its optional fields absent is a valid
\* input: the run ends without an error.
C5_AbsentFieldsNoError ==
  (Terminal /\ CleanRun) => (pc = "done" /\ exitCode = Some(0) /\ stderr = << >>)

\* C6: when the data file is unreadable or is not a valid document, the run
\* fails before any output file is written.
C6_NoOutputOnBadInput ==
  (argv /\ disk.kind # "ok") =>
    /\ pc \in { "args", "read", "theme", "crashed" }
    /\ Written = { }
    /\ writeLog = << >>
    /\ (pc = "crashed" => exitCode = Some(1))

C6_Witness == argv /\ disk.kind = "malformed" /\ pc = "crashed" /\ reads = 1

\* C7: without the data-file argument the run prints the usage message and
\* exits with status 1, reading no document and writing no file.
C7_UsageExit ==
  ~argv =>
    /\ pc \in { "args", "exited" }
    /\ reads = 0
    /\ Written = { }
    /\ writeLog = << >>
    /\ (pc = "exited" =>
          /\ exitCode = Some(1)
          /\ stderr = << "Usage: node HTML-compile-complete.js <data-file-path>" >>)

C7_Witness == ~argv /\ pc = "exited"

\* C8: a failed write is the last write of the run and the run ends in
\* failure: nothing is written after it and the run never ends in success.
C8_WriteFailureFatal ==
  \A i \in 1..Len(writeLog) :
    ~writeLog[i].ok =>
      /\ i = Len(writeLog)
      /\ pc = "crashed"
      /\ exitCode = Some(1)
      /\ files[writeLog[i].file] = None
      /\ (writeLog[i].file = "index.html" => Written = { })
      /\ (writeLog[i].file = "references.html" => files["projects.html"] = None)

C8_Witness ==
  /\ Len(writeLog) = 2
  /\ writeLog[2] = [file |-> "references.html", ok |-> FALSE]
  /\ IsSet(pd.projects)
  /\ pc = "crashed"

\* the text escapeHtml(portfolioData.name) put in the footer of the main page
FooterName(page) ==
  page[CHOOSE i \in 1..Len(page) : page[i].t = "val" /\ page[i].f = "footer.name"].v

AllWhitespace(s) == \A i \in 1..Len(s) : s[i] \in Whitespace

NoRawAngle(s) == \A i \in 1..Len(s) : s[i] \notin { "<", ">" }

\* C9 (as stated): escapeHtml returns '' for every empty or all-whitespace
\* string, and its result holds no raw '<' or '>'.
C9_BlankToEmpty ==
  htmlContent # None =>
    /\ AllWhitespace(StrOf(pd.name)) => FooterName(htmlContent[1]) = << >>
    /\ NoRawAngle(FooterName(htmlContent[1]))

\* C9 (amended): escapeHtml returns '' for the empty string, returns a
\* non-empty all-whitespace string unchanged, and its result holds no raw
\* '<' or '>'.
C9_EmptyToEmpty ==
  htmlContent # None =>
    /\ StrOf(pd.name) = << >> => FooterName(htmlContent[1]) = << >>
    /\ (StrOf(pd.name) # << >> /\ AllWhitespace(StrOf(pd.name)))
         => FooterName(htmlContent[1]) = StrOf(pd.name)
    /\ NoRawAngle(FooterName(htmlContent[1]))

C9_Witness ==
  /\ htmlContent # None
  /\ StrOf(pd.name) = << " ", " " >>
  /\ FooterName(htmlContent[1]) = << " ", " " >>

NoRawSpecial(s) == \A i \in 1..Len(s) : s[i] \notin { "<", ">", "\"", "'" }

\* C10: every document value embedded in a written page went through
\* escapeHtml: no embedded value holds a raw '<', '>', '"' or "'".
C10_AllEmbedsEscaped ==
  \A f \in FileNames :
    files[f] # None =>
      \A i \in 1..Len(files[f][1]) :
        files[f][1][i].t = "val" => NoRawSpecial(files[f][1][i].v)

(***************************************************************************)
(* Timeline heading                                                        *)
(***************************************************************************)
\* the texts embedded for field f in a page, in page order
Embedded(page, f) ==
  LET IsF(tok) == tok.t = "val" /\ tok.f = f
      toks == SelectSeq(page, IsF)
  IN [i \in 1..Len(toks) |-> toks[i].v]

DocTimeline == StrOf(disk.doc.timeline)

RecognizedPresent ==
  { ty \in { "education", "experience", "research" } :
      \E i \in 1..Len(DocTimeline) : DocTimeline[i].type = ty }

\* the heading the specification gives for a set of recognized types
HeadingFor(R) ==
  LET e == "education" \in R
      x == "experience" \in R
      r == "research" \in R
  IN CASE e /\ x /\ r -> << "Education", ", ", "Experience", ", ", "&", " ", "Research" >>
       [] e /\ x /\ ~r -> << "Education", " ", "&", " ", "Experience" >>
       [] e /\ ~x /\ r -> << "Education", " ", "&", " ", "Research" >>
       [] ~e /\ x /\ r -> << "Experience", " ", "&", " ", "Research" >>
       [] e /\ ~x /\ ~r -> << "Education" >>
       [] ~e /\ x /\ ~r -> << "Experience" >>
       [] ~e /\ ~x /\ r -> << "Research" >>
       [] OTHER -> << "Education, Experience ", "&", " Research" >>

TimelineRendered ==
  /\ htmlContent # None
  /\ Includes(sectionOrder, "timeline")
  /\ DocTimeline # << >>

\* C11: for a non-empty timeline holding at least one recognized type, the
\* heading of the timeline section is built from the set of recognized types
\* present, in the fixed order education, experience, research, whatever the
\* order and the repetitions of the entries: one name alone, 'A & B', or
\* 'Education, Experience, & Research'.
C11_HeadingFromTypeSet ==
  (TimelineRendered /\ RecognizedPresent # { })
    => Embedded(htmlContent[1], "timelineTitle")
         = [i \in 1..Count(sectionOrder, "timeline") |->
              escapeHtml(HeadingFor(RecognizedPresent))]

\* entries out of the fixed order and with a repeated type
C11_Witness ==
  /\ pc = "done"
  /\ Len(DocTimeline) = 3
  /\ DocTimeline[1].type = "research"
  /\ DocTimeline[2].type = "research"
  /\ DocTimeline[3].type = "education"
  /\ Embedded(htmlContent[1], "timelineTitle")
       = << escapeHtml(<< "Education", " ", "&", " ", "Research" >>) >>

\* C12: when the timeline is non-empty but no entry has a recognized type,
\* the heading is the fallback title 'Education, Experience & Research'.
C12_FallbackHeading ==
  (TimelineRendered /\ RecognizedPresent = { })
    => Embedded(htmlContent[1], "timelineTitle")
         = [i \in 1..Count(sectionOrder, "timeline") |-> escapeHtml(HeadingFor({ }))]

(***************************************************************************)
(* Skills in card mode                                                     *)
(***************************************************************************)
\* the first about fragment of a page (empty if there is none)
AboutBlock(page) ==
  SubSeq(page, IndexOf(page, Lit("<section id=about>")),
         IndexOf(page, Lit("</section about>")))

DocCategories ==
  IF disk.doc.skills = None THEN << >> ELSE StrOf(disk.doc.skills[1].categories)

DocMapping ==
  IF disk.doc.skills = None THEN << >> ELSE StrOf(disk.doc.skills[1].skills)

\* the skill list the document's mapping holds for a category id
DocSkillsOf(id) ==
  IF \E i \in 1..Len(DocMapping) : DocMapping[i].key = id
  THEN DocMapping[CHOOSE i \in 1..Len(DocMapping) : DocMapping[i].key = id].list
  ELSE << >>

DocHasList(category) == DocSkillsOf(category.id) # << >>

\* the categories with at least one skill, in their original order
DocCategoriesWithSkills == SelectSeq(DocCategories, DocHasList)

CardMode == disk.doc.skillsDisplayMode # Some("rotating")

AboutRendered == htmlContent # None /\ Includes(sectionOrder, "about")

IsRowOrName(tok) ==
  \/ tok \in { Lit("<row grid>"), Lit("<row flex justify-center>") }
  \/ (tok.t = "val" /\ tok.f = "category.name")

\* the rows the specification gives for the filtered categories: full rows
\* of three in a grid, then the remainder centered
ExpectedRows(cats) ==
  LET M == Len(cats)
      RowLen(r) == IF 3 * r <= M THEN 3 ELSE M - 3 * (r - 1)
  IN Concat([r \in 1..((M + 2) \div 3) |->
               << Lit(IF RowLen(r) = 3 THEN "<row grid>" ELSE "<row flex justify-center>") >>
               \o [k \in 1..RowLen(r) |->
                     Val("category.name", escapeHtml(cats[3 * (r - 1) + k].name))]])

\* C13: in card mode the categories are filtered to the M that hold at least
\* one skill; the output has ceil(M/3) rows, rows of exactly three use the
\* grid layout, only the last row can hold fewer than three and it uses the
\* centered layout; the filtered categories keep their original order.
C13_CardRows ==
  (AboutRendered /\ CardMode)
    => SelectSeq(AboutBlock(htmlContent[1]), IsRowOrName)
         = ExpectedRows(DocCategoriesWithSkills)

\* five categories, one of them without skills: a full row and a partial row
C13_Witness ==
  /\ pc = "done"
  /\ CardMode
  /\ Len(DocCategories) = 5
  /\ Len(DocCategoriesWithSkills) = 4
  /\ ~DocHasList(DocCategories[2])
  /\ Lit("<row grid>") \in { htmlContent[1][i] : i \in 1..Len(htmlContent[1]) }
  /\ Lit("<row flex justify-center>") \in { htmlContent[1][i] : i \in 1..Len(htmlContent[1]) }

(***************************************************************************)
(* Skills in rotating mode                                                 *)
(***************************************************************************)
RotatingMode == disk.doc.skillsDisplayMode = Some("rotating")

\* the skills of the document's mapping, list after list in key order
DocFlatByKeys == Concat([i \in 1..Len(DocMapping) |-> DocMapping[i].list])

\* the skills of the document, category after category of the categories list
DocFlatByCategories ==
  Concat([i \in 1..Len(DocCategories) |-> DocSkillsOf(DocCategories[i].id)])

Tripled(S) == [i \in 1..(3 * Len(S)) |-> escapeHtml(S[((i - 1) % Len(S)) + 1])]

CarouselSkills == Embedded(AboutBlock(htmlContent[1]), "skill")

HasToken(page, tok) == \E i \in 1..Len(page) : page[i] = tok

\* C14: in rotating mode, a grouping of skills whose flattening is S renders
\* the sequence S S S, of length 3 * |S|, and no carousel when S is empty.
C14_CarouselTriples ==
  (AboutRendered /\ RotatingMode)
    => /\ CarouselSkills = Tripled(DocFlatByKeys)
       /\ HasToken(htmlContent[1], Lit("<skills-carousel>")) <=> DocFlatByKeys # << >>

C14_Witness ==
  /\ pc = "done"
  /\ RotatingMode
  /\ Len(DocFlatByKeys) = 3
  /\ Len(CarouselSkills) = 9
  /\ HasToken(htmlContent[1], Lit("<skills-carousel>"))

\* C15 (as stated): the flattened sequence follows the order of the categories
\* list, then the skill order within each category, whatever the key order of
\* the mapping.
C15_CategoryOrder ==
  (AboutRendered /\ RotatingMode) => CarouselSkills = Tripled(DocFlatByCategories)

\* position of a skill in a rendered sequence (0 if none)
PosIn(T, skill) ==
  IF \E i \in 1..Len(T) : T[i] = escapeHtml(skill)
  THEN CHOOSE i \in 1..Len(T) : T[i] = escapeHtml(skill)
  ELSE 0

\* C15 (amended): every skill of the mapping is shown, and the sequence
\* follows the key order of the mapping, then the skill order within each
\* list, whatever the categories list is.
C15_MappingKeyOrder ==
  (AboutRendered /\ RotatingMode)
    => LET R == CarouselSkills
           T == SubSeq(R, 1, Len(R) \div 3)
           pos == [i \in 1..Len(DocMapping) |->
                     [p \in 1..Len(DocMapping[i].list) |-> PosIn(T, DocMapping[i].list[p])]]
       IN \A i, j \in 1..Len(DocMapping) :
            \A p \in 1..Len(DocMapping[i].list), q \in 1..Len(DocMapping[j].list) :
              /\ pos[i][p] > 0
              /\ (i < j \/ (i = j /\ p < q)) => pos[i][p] < pos[j][q]

\* the mapping lists c2 before c1 while the categories list has c1 first
C15_Witness ==
  /\ pc = "done"
  /\ RotatingMode
  /\ Len(DocCategories) = 2 /\ DocCategories[1].id = "c1" /\ DocCategories[2].id = "c2"
  /\ Len(DocMapping) = 2 /\ DocMapping[1].key = "c2" /\ DocMapping[2].key = "c1"
  /\ DocMapping[1].list # << >> /\ DocMapping[2].list # << >>
  /\ CarouselSkills[1] = escapeHtml(DocMapping[1].list[1])

(***************************************************************************)
(* Contact section                                                         *)
(***************************************************************************)
MethodKinds == { Lit("Email"), Lit("LinkedIn"), Lit("Phone"), Lit("GitHub") }

IsMethod(tok) == tok \in MethodKinds

\* the contact-method entries of the first contact section of a page
ContactEntries(page) ==
  SelectSeq(SubSeq(page, IndexOf(page, Lit("<contact-methods>")),
                   IndexOf(page, Lit("</contact-methods>"))),
            IsMethod)

DocNoContact == disk.doc.contact = None

DocGithubSet == disk.doc.links # None /\ IsSet(disk.doc.links[1].github)

ContactSelected == Includes(sectionOrder, "contact")

\* C16 (as stated): without a contact field, the page has no contact fragment
\* when 'contact' is not selected, and when it is selected the contact section
\* has no contact-method entry (email, LinkedIn, phone, GitHub) and no
\* areas-of-interest block.
C16_EmptyContactBlock ==
  (htmlContent # None /\ DocNoContact)
    => IF ContactSelected
       THEN /\ HasToken(htmlContent[1], Lit("<section id=contact>"))
            /\ ContactEntries(htmlContent[1]) = << >>
            /\ ~HasToken(htmlContent[1], Lit("Areas of Interest"))
       ELSE ~HasToken(htmlContent[1], Lit("<section id=contact>"))

\* C16 (amended): without a contact field, the page has no contact fragment
\* when 'contact' is not selected; when it is selected the contact section is
\* rendered with no email, LinkedIn or phone entry and no areas-of-interest
\* block, and with the GitHub entry exactly when links.github is non-empty.
C16_OnlyGithubWithoutContact ==
  (htmlContent # None /\ DocNoContact)
    => IF ContactSelected
       THEN /\ HasToken(htmlContent[1], Lit("<section id=contact>"))
            /\ ContactEntries(htmlContent[1])
                 = (IF DocGithubSet THEN << Lit("GitHub") >> ELSE << >>)
            /\ ~HasToken(htmlContent[1], Lit("Areas of Interest"))
       ELSE ~HasToken(htmlContent[1], Lit("<section id=contact>"))

C16_Witness ==
  /\ pc = "done"
  /\ DocNoContact
  /\ ContactSelected
  /\ DocGithubSet
  /\ ContactEntries(htmlContent[1]) = << Lit("GitHub") >>

\* the tokens of the first contact section between the contact-method markers
ContactMethods(page) ==
  SubSeq(page, IndexOf(page, Lit("<contact-methods>")),
         IndexOf(page, Lit("</contact-methods>")))

DocLinkedin ==
  IF disk.doc.contact = None THEN None ELSE disk.doc.contact[1].linkedin

DocGithub == IF disk.doc.links = None THEN None ELSE disk.doc.links[1].github

\* removal of c when it is the leading part of s
StripLeading(s, c) == IF s # << >> /\ Head(s) = c THEN Tail(s) ELSE s

\* C17: the LinkedIn display text is the link with a leading 'https://' and
\* then a leading 'linkedin.com/in/' removed, the GitHub display text is the
\* link with a leading 'https://', then 'http://', then 'github.com/'
\* removed; only leading prefixes are removed.
C17_LeadingPrefixesOnly ==
  (htmlContent # None /\ ContactSelected)
    => /\ IsSet(DocLinkedin)
            => Embedded(ContactMethods(htmlContent[1]), "contact.linkedin")
                 = << escapeHtml(DocLinkedin[1]),
                      escapeHtml(StripLeading(StripLeading(DocLinkedin[1], "https://"),
                                              "linkedin.com/in/")) >>
       /\ IsSet(DocGithub)
            => Embedded(ContactMethods(htmlContent[1]), "links.github")
                 = << escapeHtml(DocGithub[1]),
                      escapeHtml(StripLeading(StripLeading(StripLeading(DocGithub[1],
                                   "https://"), "http://"), "github.com/")) >>

(***************************************************************************)
(* Theme colors                                                            *)
(***************************************************************************)
\* the color the specification gives for field f with default d
DocColor(f, d) ==
  IF disk.doc.themeColors # None /\ IsSet(disk.doc.themeColors[1][f])
  THEN disk.doc.themeColors[1][f][1]
  ELSE d

\* every embedding of color field f in a page carries the value c
AllEmbedded(page, f, c) ==
  \A i \in 1..Len(page) : (page[i].t = "val" /\ page[i].f = f) => page[i].v = c

SamePalette(page) ==
  /\ AllEmbedded(page, "primaryColor", primaryColor)
  /\ AllEmbedded(page, "secondaryColor", secondaryColor)
  /\ AllEmbedded(page, "accentColor", accentColor)

\* C18: each theme color is the document's value or, when themeColors or that
\* color is absent, its default (#0B3D91, #17A2B8, #F3F4F6, #ffffff, #1f2937),
\* each color independently of the others; the three page assemblers resolve
\* the same primary, secondary and accent colors.
C18_ThemeDefaults ==
  /\ htmlContent # None
       => /\ primaryColor = DocColor("primary", << "#0B3D91" >>)
          /\ secondaryColor = DocColor("secondary", << "#17A2B8" >>)
          /\ accentColor = DocColor("accent", << "#F3F4F6" >>)
          /\ backgroundColor = DocColor("background", << "#ffffff" >>)
          /\ textColor = DocColor("text", << "#1f2937" >>)
          /\ SamePalette(htmlContent[1])
          /\ AllEmbedded(htmlContent[1], "backgroundColor", backgroundColor)
          /\ AllEmbedded(htmlContent[1], "textColor", textColor)
  /\ referencesContent # None => SamePalette(referencesContent[1])
  /\ projectsContent # None => SamePalette(projectsContent[1])

\* a partial themeColors: primary given, secondary absent, all pages written
C18_Witness ==
  /\ pc = "done"
  /\ disk.doc.themeColors # None
  /\ disk.doc.themeColors[1].primary = Some(<< "#abc" >>)
  /\ disk.doc.themeColors[1].secondary = None
  /\ primaryColor = << "#abc" >>
  /\ secondaryColor = << "#17A2B8" >>
  /\ referencesContent # None /\ projectsContent # None
  /\ HasToken(referencesContent[1], Val("primaryColor", << "#abc" >>))
  /\ HasToken(projectsContent[1], Val("secondaryColor", << "#17A2B8" >>))

(***************************************************************************)
(* The parsed document                                                     *)
(***************************************************************************)
\* C19: the parsed document is never mutated: at every step after parsing,
\* and after every page is rendered and written, each field of portfolioData
\* equals the value the data file gave it.
C19_DocumentUnchanged ==
  portfolioData # None => portfolioData[1] = disk.doc

\* a finished run that rendered the carousel and wrote the projects page
C19_Witness ==
  /\ pc = "done"
  /\ RotatingMode
  /\ DocFlatByKeys # << >>
  /\ files["index.html"] # None
  /\ files["projects.html"] # None
  /\ portfolioData = Some(disk.doc)

(***************************************************************************)
(* When the about section renders skills                                   *)
(***************************************************************************)
SkillsMarkup ==
  { Lit("<skills-cards>"), Lit("<skills-carousel>"), Lit("No skills added yet") }

\* C20 (as stated): inside the about section, skills markup (cards, carousel
\* or skills placeholder) is produced only when at least one category has a
\* non-empty skill list.
C20_SkillsOnlyWithLists ==
  AboutRendered
    => ((\E tok \in SkillsMarkup : HasToken(AboutBlock(htmlContent[1]), tok))
          => DocCategoriesWithSkills # << >>)

\* C20 (amended): in card mode the cards appear exactly when some category
\* has a non-empty list, and the 'No skills added yet' placeholder appears
\* exactly when no category has one although skills.categories is present and
\* the categories list or the mapping is non-empty; in rotating mode the
\* carousel appears exactly when the mapping holds at least one skill.
C20_SkillsSubRendering ==
  AboutRendered
    => LET blk == AboutBlock(htmlContent[1])
           cards == HasToken(blk, Lit("<skills-cards>"))
           carousel == HasToken(blk, Lit("<skills-carousel>"))
           placeholder == HasToken(blk, Lit("No skills added yet"))
       IN IF CardMode
          THEN /\ cards <=> DocCategoriesWithSkills # << >>
               /\ placeholder <=> /\ disk.doc.skills # None
                                  /\ disk.doc.skills[1].categories # None
                                  /\ DocCategories # << >> \/ DocMapping # << >>
                                  /\ DocCategoriesWithSkills = << >>
               /\ ~carousel
          ELSE /\ carousel <=> DocFlatByKeys # << >>
               /\ ~cards
               /\ ~placeholder

\* card mode, categories present, none of them with a skill: the placeholder
C20_Witness ==
  /\ pc = "done"
  /\ CardMode
  /\ DocCategories # << >>
  /\ DocCategoriesWithSkills = << >>
  /\ HasToken(AboutBlock(htmlContent[1]), Lit("No skills added yet"))

(***************************************************************************)
(* Project cards                                                           *)
(***************************************************************************)
DocProjects == StrOf(disk.doc.projects)

\* the first projects section of a main page
ProjectsBlock(page) ==
  SubSeq(page, IndexOf(page, Lit("<section id=projects>")),
         IndexOf(page, Lit("</section projects>")))

ProjectsRendered ==
  htmlContent # None /\ Includes(sectionOrder, "projects") /\ DocProjects # << >>

\* the descriptive text the specification gives for a project
PreferredText(project) ==
  IF IsSet(project.summary) THEN project.summary[1] ELSE StrOf(project.description)

\* C21: wherever a project's descriptive text is rendered, in the projects
\* section of the main page and on the standalone projects page, it is the
\* project's summary when present and its description only as a fallback.
C21_SummaryPreferred ==
  /\ ProjectsRendered
       => Embedded(ProjectsBlock(htmlContent[1]), "project.summary")
            = [i \in 1..Len(DocProjects) |-> escapeHtml(PreferredText(DocProjects[i]))]
  /\ projectsContent # None
       => Embedded(projectsContent[1], "project.description")
            = [i \in 1..Len(DocProjects) |-> escapeHtml(PreferredText(DocProjects[i]))]

IsTagToken(tok) ==
  \/ tok = Lit("<tags>")
  \/ tok.t = "more"
  \/ (tok.t = "val" /\ tok.f = "project.skill")

\* the tag block the specification gives for a project
ExpectedTags(project) ==
  LET sk == StrOf(project.skills)
      n == Len(sk)
      shown == IF n < 3 THEN n ELSE 3
  IN IF n = 0 THEN << >>
     ELSE << Lit("<tags>") >>
          \o [i \in 1..shown |-> Val("project.skill", escapeHtml(sk[i]))]
          \o (IF n > 3 THEN << More(n - 3) >> ELSE << >>)

\* C22: in the projects section each project card shows min(3, n) skill
\* tags, the first three of its n skills in order, and a '+N more' badge if
\* and only if n > 3, with N = n - 3; a project with no skills shows no tag
\* block at all.
C22_TagsAndMore ==
  ProjectsRendered
    => SelectSeq(ProjectsBlock(htmlContent[1]), IsTagToken)
         = Concat([i \in 1..Len(DocProjects) |-> ExpectedTags(DocProjects[i])])

\* a card with two tags and no badge next to a card with four skills, three
\* tags and a '+1 more' badge
C22_Witness ==
  /\ pc = "done"
  /\ Len(DocProjects) = 2
  /\ Len(StrOf(DocProjects[1].skills)) = 2
  /\ Len(StrOf(DocProjects[2].skills)) = 4
  /\ ProjectsRendered
  /\ HasToken(ProjectsBlock(htmlContent[1]), More(1))
  /\ Len(Embedded(ProjectsBlock(htmlContent[1]), "project.skill")) = 5

(***************************************************************************)
(* Timeline entries                                                        *)
(***************************************************************************)
\* the first timeline section of a main page
TimelineBlock(page) ==
  SubSeq(page, IndexOf(page, Lit("<section id=timeline>")),
         IndexOf(page, Lit("</section timeline>")))

LeftOfLine == Lit("<item flex-row pr-8 text-right>")

RightOfLine == Lit("<item flex-row-reverse pl-8 text-left>")

IsItemToken(tok) ==
  \/ tok \in { LeftOfLine, RightOfLine }
  \/ (tok.t = "val" /\ tok.f \in { "badgeColor", "item.year" })

\* the badge color the specification gives for an entry type
BadgeFor(type) ==
  CASE type = "education" -> primaryColor
    [] type = "research" -> << "#8b5cf6" >>
    [] OTHER -> << "#0ea5e9" >>

\* C23: every timeline entry is rendered exactly once, in input order; the
\* entry at an even index is left of the centerline and at an odd index
\* right; the badge of an education entry has the primary theme color, of a
\* research entry #8b5cf6, and of any other type #0ea5e9.
C23_TimelineItems ==
  TimelineRendered
    => SelectSeq(TimelineBlock(htmlContent[1]), IsItemToken)
         = Concat([i \in 1..Len(DocTimeline) |->
                     << IF (i - 1) % 2 = 0 THEN LeftOfLine ELSE RightOfLine,
                        Val("badgeColor", BadgeFor(DocTimeline[i].type)),
                        Val("item.year", escapeHtml(DocTimeline[i].year)) >>])

\* three entries with different years: research, unrecognized, education
C23_Witness ==
  /\ pc = "done"
  /\ Len(DocTimeline) = 3
  /\ DocTimeline[1].type = "research" /\ DocTimeline[1].year = << "2019" >>
  /\ DocTimeline[2].type = "volunteer" /\ DocTimeline[2].year = << "2020" >>
  /\ DocTimeline[3].type = "education" /\ DocTimeline[3].year = << "2021" >>
  /\ Embedded(TimelineBlock(htmlContent[1]), "badgeColor")
       = << << "#8b5cf6" >>, << "#0ea5e9" >>, primaryColor >>

(***************************************************************************)
(* Footer                                                                  *)
(***************************************************************************)
\* how many times a token occurs in a page
Occurrences(page, tok) == Cardinality({ i \in 1..Len(page) : page[i] = tok })

DocDescriptors == StrOf(disk.doc.footerDescriptors)

NotBlank(d) == \E i \in 1..Len(d) : d[i] # " "

\* the descriptor text the specification gives for the document
ExpectedFooterText ==
  IF DocDescriptors # << >>
  THEN LET kept == SelectSeq(DocDescriptors, NotBlank)
       IN Join([i \in 1..Len(kept) |-> escapeHtml(Trim(kept[i]))], << " | " >>)
  ELSE escapeHtml(StrOf(disk.doc.title))

\* C24: the footer of the main page is rendered exactly once whatever
\* sectionOrder is; its descriptor text is, when footerDescriptors is
\* non-empty, the descriptors trimmed, escaped, those empty after trimming
\* removed, joined by ' | ' in order, and otherwise the escaped title.
C24_FooterOnce ==
  htmlContent # None
    => /\ Occurrences(htmlContent[1], Lit("<footer>")) = 1
       /\ Occurrences(htmlContent[1], Lit("</footer>")) = 1
       /\ Embedded(htmlContent[1], "footerText") = << ExpectedFooterText >>

\* two descriptors, one blank and one padded: only the padded one is shown
C24_Witness ==
  /\ pc = "done"
  /\ DocDescriptors = << << " " >>, << " ", "a" >> >>
  /\ Embedded(htmlContent[1], "footerText") = << << "a" >> >>

(***************************************************************************)
(* Category icons                                                          *)
(***************************************************************************)
IsIcon(tok) == tok.t = "icon"

\* identifiers that differ only in the case of their letters
CaseGroups == { { "code", "Code", "CODE" }, { "star", "Star", "STAR" }, { "zzz", "Zzz" } }

\* the identifier the specification gives for a category: its icon
\* identifier, or its display name when that is absent or empty
IdentifierOf(category) ==
  IF IsSet(category.icon) THEN category.icon[1] ELSE category.name

Recognized(identifier) == IconTable(ToLower(identifier)) # ""

\* the icon of the card at position index of the filtered sequence
ExpectedIcon(category, index) ==
  IF Recognized(IdentifierOf(category))
  THEN IconTable(ToLower(IdentifierOf(category)))
  ELSE defaultIcons[(index % 5) + 1]

\* getCategoryIcon on identifiers that differ only in case, at every index
IconsCaseInsensitive ==
  \A g \in CaseGroups : \A a, b \in g : \A i \in 0..(2 * MaxIcons) :
    /\ getCategoryIcon(Some(<< a >>), << "x" >>, i) # ""
    /\ getCategoryIcon(Some(<< a >>), << "x" >>, i)
         = getCategoryIcon(Some(<< b >>), << "x" >>, i)
    /\ getCategoryIcon(None, << a >>, i) = getCategoryIcon(None, << b >>, i)
    /\ ~Recognized(<< a >>)
         => getCategoryIcon(Some(<< a >>), << "x" >>, i) = defaultIcons[(i % 5) + 1]

\* C25: getCategoryIcon returns one fixed SVG for every identifier and every
\* non-negative index, whatever the case of the identifier; an unrecognized
\* identifier yields the default icon at position (categoryIndex mod 5); in
\* card mode the index is the category's position among the categories with
\* skills, not its position in the categories list.
C25_IconByFilteredIndex ==
  /\ IconsCaseInsensitive
  /\ (AboutRendered /\ CardMode)
       => SelectSeq(AboutBlock(htmlContent[1]), IsIcon)
            = [k \in 1..Len(DocCategoriesWithSkills) |->
                 Icon(ExpectedIcon(DocCategoriesWithSkills[k], k - 1))]

\* six categories, the first without skills, the last unrecognized: it is the
\* fifth card (index 4) although it is sixth in the list (index 5)
C25_Witness ==
  /\ pc = "done"
  /\ CardMode
  /\ Len(DocCategories) = 6
  /\ Len(DocCategoriesWithSkills) = 5
  /\ DocCategories[6].icon = Some(<< "Zzz" >>)
  /\ DocCategories[6].name = << "Plain" >>
  /\ SelectSeq(AboutBlock(htmlContent[1]), IsIcon)[5] = Icon(defaultIcons[5])
  /\ defaultIcons[5] # defaultIcons[1]

\* C30: getCategoryIcon consults the display name only when the icon
\* identifier is absent or empty: a present, unrecognized icon identifier
\* gets the index-based default icon even if the display name is recognized;
\* the default icons at positions 1 and 3 are the same markup, so the
\* fallback yields at most four distinct icons.
C30_NameOnlyWithoutIcon ==
  /\ defaultIcons[2] = defaultIcons[4]
  /\ Cardinality({ defaultIcons[i] : i \in 1..Len(defaultIcons) }) <= 4
  /\ (AboutRendered /\ CardMode)
       => LET icons == SelectSeq(AboutBlock(htmlContent[1]), IsIcon)
          IN \A k \in 1..Len(DocCategoriesWithSkills) :
               LET category == DocCategoriesWithSkills[k]
               IN IF IsSet(category.icon)
                  THEN icons[k] = Icon(IF Recognized(category.icon[1])
                                       THEN IconTable(ToLower(category.icon[1]))
                                       ELSE defaultIcons[((k - 1) % 5) + 1])
                  ELSE Recognized(category.name)
                         => icons[k] = Icon(IconTable(ToLower(category.name)))

\* an unrecognized icon identifier on a category named 'Star', third card:
\* the default icon of index 2, not the star
C30_Witness ==
  /\ pc = "done"
  /\ CardMode
  /\ Len(DocCategoriesWithSkills) = 6
  /\ DocCategories[3].icon = Some(<< "Zzz" >>)
  /\ DocCategories[3].name = << "Star" >>
  /\ SelectSeq(AboutBlock(htmlContent[1]), IsIcon)[3] = Icon("people")

(***************************************************************************)
(* Default section order                                                   *)
(***************************************************************************)
\* C26: the default sequence [hero, about, skills, projects, timeline,
\* contact] is used exactly when sectionOrder is absent; a present but empty
\* sectionOrder is honoured as given: the main page has no section fragment
\* but still has its navigation and its footer.
C26_DefaultOnlyWhenAbsent ==
  htmlContent # None
    => /\ sectionOrder =
            (IF disk.doc.sectionOrder = None
             THEN << "hero", "about", "skills", "projects", "timeline", "contact" >>
             ELSE disk.doc.sectionOrder[1])
       /\ disk.doc.sectionOrder = Some(<< >>)
            => /\ MainBlock(htmlContent[1]) = << >>
               /\ HasToken(htmlContent[1], Lit("<nav>"))
               /\ HasToken(htmlContent[1], Lit("<footer>"))

C26_Witness ==
  /\ pc = "done"
  /\ disk.doc.sectionOrder = Some(<< >>)
  /\ sectionOrder = << >>
  /\ MainBlock(htmlContent[1]) = << >>
  /\ HasToken(htmlContent[1], Lit("<nav>"))
  /\ HasToken(htmlContent[1], Lit("<footer>"))

(***************************************************************************)
(* Links between the pages                                                 *)
(***************************************************************************)
LinkToReferences == Lit("<a href=references.html>")

\* C27: the navigation of the main page contains a link to references.html
\* if and only if the same run writes references.html.
C27_NavLinkIffWritten ==
  (CleanRun /\ Terminal /\ htmlContent # None)
    => (HasToken(htmlContent[1], LinkToReferences) <=> files["references.html"] # None)

\* the pages written by the run that link to references.html
LinkingPages == { f \in Written : HasToken(files[f][1], LinkToReferences) }

\* C28: in every run that completes, a written page that links to
\* references.html is accompanied by references.html written in the same
\* run; in particular a written projects.html links to references.html only
\* when references.html was generated.  (No page links to projects.html.)
C28_NoDanglingLink ==
  pc = "done" => (LinkingPages # { } => "references.html" \in Written)

(***************************************************************************)
(* Order of the steps                                                      *)
(***************************************************************************)
\* rank of a file in the order of the script
FileRank(f) ==
  CASE f = "index.html" -> 1 [] f = "references.html" -> 2 [] f = "projects.html" -> 3

\* the run crashed while rendering or writing the references page
FailedAtReferences ==
  /\ pc = "crashed"
  /\ files["index.html"] # None
  /\ DocReferencesTrigger
  /\ files["references.html"] = None

\* C29: the steps of a run are strictly ordered: the main page is rendered
\* and index.html written before the references page is rendered, and
\* references.html (if any) is written before the projects page is rendered
\* and written; a failure while rendering or writing the references page
\* leaves index.html on disk and projects.html unwritten.
C29_StepsOrdered ==
  /\ \A i, j \in 1..Len(writeLog) :
       i < j => FileRank(writeLog[i].file) < FileRank(writeLog[j].file)
  /\ referencesContent # None => files["index.html"] # None
  /\ projectsContent # None
       => /\ files["index.html"] # None
          /\ DocReferencesTrigger => files["references.html"] # None
  /\ files["projects.html"] # None => projectsContent # None
  /\ FailedAtReferences
       => /\ files["index.html"] = htmlContent
          /\ projectsContent = None
          /\ files["projects.html"] = None

\* a document with projects whose references page cannot be rendered
C29_Witness ==
  /\ FailedAtReferences
  /\ IsSet(disk.doc.projects)
  /\ referencesContent = None
  /\ files["index.html"] = htmlContent
  /\ files["projects.html"] = None

====
